---- MODULE Spec2Model ----
(***************************************************************************)
(* Correlated memory stores (IT-MACs, M = K xor x*Delta) of mpz and the    *)
(* garbled-circuit store layer built on them.                              *)
(*                                                                         *)
(* Blocks are 128-bit words in the program; here a Block keeps its pointer *)
(* bit (the LSB) and one further bit, which is enough to tell K, K xor     *)
(* Delta and a forged MAC apart.  BLAKE3 is modelled as an injective       *)
(* function of the hashed byte string.                                     *)
(***************************************************************************)
EXTENDS Integers, Sequences, FiniteSets, TLC

VARIABLES
    ks,         \* KeyStore   (Sender side of the correlated store)
    ms,         \* MacStore   (Receiver side of the correlated store)
    last,       \* last KeyStore call: [op, slice, err]
    released,   \* history: per key index, number of successful releases
    corr,       \* state of the correlated-store round (test_correlated_store)
    gen,        \* GeneratorStore (mpz-garble-core)
    ev,         \* EvaluatorStore (mpz-garble-core)
    st,         \* state of the store round (test_store_decode)
    gfut,       \* generator-side decode futures
    efut,       \* evaluator-side decode futures
    net,        \* messages in flight between the two parties, ideal COT
    pcG,        \* position of the generator task
    pcE         \* position of the evaluator task

vars == <<ks, ms, last, released, corr, gen, ev, st, gfut, efut, net, pcG, pcE>>

-----------------------------------------------------------------------------
(* Bounds of the model *)

\* Largest arena length of the KeyStore / MacStore sequences.
MaxArena == 3

\* Lengths a caller asks for.
SliceLens == {1, 2}

\* Number of slices of the garbled store round.
NSlices == 3

-----------------------------------------------------------------------------
(* Block and bits *)

Block == 0..3

\* Blocks the key PRG is seen to return: pointer bit clear / pointer bit set.
PrgBlocks == {2, 3}

B2N(b) == IF b THEN 1 ELSE 0

\* Block ^ Block
BXor(a, b) ==
    (((a % 2) + (b % 2)) % 2) + (2 * (((a \div 2) + (b \div 2)) % 2))

\* Block::lsb
Lsb(a) == (a % 2) = 1

\* Block::xor_lsb
XorLsb(a, bit) == BXor(a, B2N(bit))

\* Block::set_lsb
SetLsb(a, bit) == (2 * (a \div 2)) + B2N(bit)

BlockZERO == 0

\* Block::to_bytes (little-endian bytes of the word; injective)
ToBytes(a) == <<a % 2, a \div 2>>

\* blake3::Hasher over the concatenated updates; collision-free
Blake3(bytes) == <<"blake3", bytes>>

DeltaRaw(value) == value

\* Delta::new : the pointer bit of Delta is set
\* a Delta whose pointer bit is cleared
DeltaClear(value) == SetLsb(value, FALSE)

DeltaNew(value) == SetLsb(value, TRUE)

BitSeqs(n) == [1..n -> BOOLEAN]
BlockSeqs(n) == [1..n -> Block]
PrgSeqs(n) == [1..n -> PrgBlocks]

\* Inputs whose elements are all equal (enough where the values only pass through)
UniformBits(n) == {[i \in 1..n |-> b] : b \in BOOLEAN}
UniformKeys(n) == {[i \in 1..n |-> k] : k \in PrgBlocks}

-----------------------------------------------------------------------------
(* Slice and RangeSet *)

\* Slice { ptr, size }
SliceNew(ptr, size) == [ptr |-> ptr, size |-> size]

\* Slice::to_range, as the set of indices ptr .. ptr+size-1
ToRange(s) == s.ptr .. (s.ptr + s.size - 1)

\* Slice::from_range_unchecked
FromRange(r) == [ptr |-> r.start, size |-> r.end - r.start]

\* Slice::to_rangeset / RangeSet::from(Vec<Range>): the union of the ranges
RECURSIVE ToRangeSet(_)
ToRangeSet(slices) ==
    IF slices = <<>> THEN {}
    ELSE ToRange(Head(slices)) \cup ToRangeSet(Tail(slices))

\* RangeSet::iter_ranges : the maximal runs of the set, ascending
RECURSIVE IterRanges(_)
IterRanges(S) ==
    IF S = {} THEN <<>>
    ELSE LET a == CHOOSE x \in S : \A y \in S : x <= y
             e == CHOOSE x \in S : /\ (a..x) \subseteq S
                                   /\ (x + 1) \notin S
         IN  <<[start |-> a, end |-> e + 1]>> \o IterRanges(S \ (a..e))

-----------------------------------------------------------------------------
(* Store<T>: linear arena with a set of initialized indices *)

StoreNew == [data |-> <<>>, set |-> {}]

StoreLen(store) == Len(store.data)

\* Store::alloc : the slice it returns
AllocSlice(store, len) == SliceNew(Len(store.data), len)

\* Store::alloc : the store after it
StoreAlloc(store, len, dflt) ==
    [data |-> store.data \o [i \in 1..len |-> dflt], set |-> store.set]

\* Store::alloc_with
StoreAllocWith(store, values) ==
    [data |-> store.data \o values,
     set  |-> store.set \cup (Len(store.data) .. (Len(store.data) + Len(values) - 1))]

StoreValid(store, s) == s.ptr + s.size <= Len(store.data)

\* Store::is_set
StoreIsSet(store, s) == StoreValid(store, s) /\ ToRange(s) \subseteq store.set

StoreRead(store, s) == [i \in 1..s.size |-> store.data[s.ptr + i]]

\* Store::try_get
StoreTryGet(store, s) ==
    IF ~StoreValid(store, s) THEN [err |-> "InvalidSlice", val |-> <<>>]
    ELSE IF ~StoreIsSet(store, s) THEN [err |-> "Uninit", val |-> <<>>]
    ELSE [err |-> "Ok", val |-> StoreRead(store, s)]

StoreWrite(store, s, values) ==
    [data |-> [i \in 1..Len(store.data) |->
                 IF (i - 1) \in ToRange(s) THEN values[i - s.ptr] ELSE store.data[i]],
     set  |-> store.set \cup ToRange(s)]

\* Store::try_set
StoreTrySet(store, s, values) ==
    IF ~StoreValid(store, s) THEN [err |-> "InvalidSlice", store |-> store]
    ELSE IF ToRange(s) \cap store.set # {} THEN [err |-> "AlreadySet", store |-> store]
    ELSE [err |-> "Ok", store |-> StoreWrite(store, s, values)]

\* Store::try_get_slice_mut followed by an in-place map of the elements
StoreTryUpdate(store, s, values) ==
    IF ~StoreValid(store, s) THEN [err |-> "InvalidSlice", store |-> store]
    ELSE IF ~StoreIsSet(store, s) THEN [err |-> "Uninit", store |-> store]
    ELSE [err |-> "Ok", store |-> StoreWrite(store, s, values)]

-----------------------------------------------------------------------------
(* KeyStore *)

KsNew(delta) == [keys |-> StoreNew, delta |-> delta, used |-> {}]

KsIsSet(k, s) == StoreIsSet(k.keys, s)

KsIsUsedAll(k, s) == ToRange(s) \subseteq k.used

\* KeyStore::is_used : whether ANY key of the slice is used
KsIsUsed(k, s) == ToRange(s) \cap k.used # {}

KsAlloc(k, len) == [k EXCEPT !.keys = StoreAlloc(k.keys, len, BlockZERO)]

KsAllocWith(k, keys) == [k EXCEPT !.keys = StoreAllocWith(k.keys, keys)]

KsTryGet(k, s) == StoreTryGet(k.keys, s)

KsTrySet(k, s, keys) ==
    LET r == StoreTrySet(k.keys, s, keys)
    IN  [err |-> r.err, ks |-> [k EXCEPT !.keys = r.store]]

\* KeyStore::try_get_bits
KsTryGetBits(k, s) ==
    LET r == StoreTryGet(k.keys, s)
    IN  [err |-> r.err, val |-> [i \in 1..Len(r.val) |-> Lsb(r.val[i])]]

MarkUsedOnly(k, s) == ToRange(s)

\* self.used = self.used.union(&range)
MarkUsed(k, s) == k.used \cup ToRange(s)

\* key ^ delta if bit else key ^ ZERO
MacOf(key, bit, delta) == IF bit THEN BXor(key, delta) ELSE BXor(key, BlockZERO)

\* KeyStore::authenticate
KsAuthenticate(k, s, data) ==
    IF KsIsUsed(k, s) THEN [err |-> "AlreadyAssigned", ks |-> k, macs |-> <<>>]
    ELSE IF ~StoreIsSet(k.keys, s) THEN [err |-> "Uninit", ks |-> k, macs |-> <<>>]
    ELSE LET keys == StoreRead(k.keys, s)
         IN  [err  |-> "Ok",
              ks   |-> [k EXCEPT !.used = MarkUsed(k, s)],
              macs |-> [i \in 1..s.size |-> MacOf(keys[i], data[i], k.delta)]]

\* KeyStore::oblivious_transfer
KsObliviousTransfer(k, s) ==
    IF KsIsUsed(k, s) THEN [err |-> "AlreadyAssigned", ks |-> k, keys |-> <<>>]
    ELSE IF ~StoreIsSet(k.keys, s) THEN [err |-> "Uninit", ks |-> k, keys |-> <<>>]
    ELSE [err  |-> "Ok",
          ks   |-> [k EXCEPT !.used = MarkUsed(k, s)],
          keys |-> StoreRead(k.keys, s)]

\* KeyStore::adjust : key.xor_lsb(bit) for every key of the slice
KsAdjust(k, s, adjust) ==
    LET g == StoreTryGet(k.keys, s)
        r == StoreTryUpdate(k.keys, s,
                 [i \in 1..Len(g.val) |-> XorLsb(g.val[i], adjust[i])])
    IN  [err |-> r.err, ks |-> [k EXCEPT !.keys = r.store]]

RecoverBitNoKey(keyLsb, macBit) == macBit

\* let value = key.lsb() ^ *bit
RecoverBit(keyLsb, macBit) == keyLsb # macBit

\* The loop of KeyStore::verify over ranges.iter_ranges(): the recovered
\* values and the bytes fed to the hasher, or the first store error.
RECURSIVE KsVerifyLoop(_, _, _, _, _)
KsVerifyLoop(k, ranges, bits, idx, acc) ==
    IF ranges = <<>> THEN acc
    ELSE LET slice == FromRange(Head(ranges))
             g     == StoreTryGet(k.keys, slice)
         IN  IF g.err # "Ok" THEN [acc EXCEPT !.err = g.err]
             ELSE LET value == [i \in 1..slice.size |->
                                   RecoverBit(Lsb(g.val[i]), bits[idx + i])]
                      exp   == [i \in 1..slice.size |->
                                   ToBytes(BXor(g.val[i],
                                       IF value[i] THEN k.delta ELSE BlockZERO))]
                  IN  KsVerifyLoop(k, Tail(ranges), bits, idx + slice.size,
                          [err    |-> "Ok",
                           data   |-> acc.data \o value,
                           hashed |-> acc.hashed \o exp])

VerifyCompareNone(hash, proof) == FALSE

\* hasher.finalize() != proof
VerifyMismatch(hash, proof) == hash # proof

\* KeyStore::verify : the error and the caller's bit slice after the call
KsVerify(k, ranges, bits, proof) ==
    IF Cardinality(ranges) # Len(bits) THEN [err |-> "Panic", bits |-> bits]
    ELSE LET r == KsVerifyLoop(k, IterRanges(ranges), bits, 0,
                      [err |-> "Ok", data |-> <<>>, hashed |-> <<>>])
         IN  IF r.err # "Ok" THEN [err |-> r.err, bits |-> bits]
             ELSE IF VerifyMismatch(Blake3(r.hashed), proof)
                  THEN [err |-> "Verify", bits |-> bits]
             ELSE [err |-> "Ok", bits |-> r.data]

-----------------------------------------------------------------------------
(* MacStore *)

MsNew == [macs |-> StoreNew]

MsIsSet(m, s) == StoreIsSet(m.macs, s)

MsAlloc(m, len) == [m EXCEPT !.macs = StoreAlloc(m.macs, len, BlockZERO)]

MsAllocWith(m, macs) == [m EXCEPT !.macs = StoreAllocWith(m.macs, macs)]

MsTryGet(m, s) == StoreTryGet(m.macs, s)

MsTrySet(m, s, macs) ==
    LET r == StoreTrySet(m.macs, s, macs)
    IN  [err |-> r.err, ms |-> [m EXCEPT !.macs = r.store]]

\* MacStore::try_get_bits
MsTryGetBits(m, s) ==
    LET r == StoreTryGet(m.macs, s)
    IN  [err |-> r.err, val |-> [i \in 1..Len(r.val) |-> Lsb(r.val[i])]]

\* MacStore::try_adjust : mac.xor_lsb(bit) for every MAC of the slice
MsTryAdjust(m, s, adjust) ==
    LET g == StoreTryGet(m.macs, s)
        r == StoreTryUpdate(m.macs, s,
                 [i \in 1..Len(g.val) |-> XorLsb(g.val[i], adjust[i])])
    IN  [err |-> r.err, ms |-> [m EXCEPT !.macs = r.store]]

\* The loop of MacStore::prove over ranges.iter_ranges()
RECURSIVE MsProveLoop(_, _, _)
MsProveLoop(m, ranges, acc) ==
    IF ranges = <<>> THEN acc
    ELSE LET slice == FromRange(Head(ranges))
             g     == StoreTryGet(m.macs, slice)
         IN  IF g.err # "Ok" THEN [acc EXCEPT !.err = g.err]
             ELSE MsProveLoop(m, Tail(ranges),
                      [err    |-> "Ok",
                       bits   |-> acc.bits \o [i \in 1..slice.size |-> Lsb(g.val[i])],
                       hashed |-> acc.hashed \o [i \in 1..slice.size |-> ToBytes(g.val[i])]])

\* MacStore::prove
MsProve(m, ranges) ==
    LET r == MsProveLoop(m, IterRanges(ranges),
                 [err |-> "Ok", bits |-> <<>>, hashed |-> <<>>])
    IN  IF r.err # "Ok" THEN [err |-> r.err, bits |-> <<>>, proof |-> Blake3(<<>>)]
        ELSE [err |-> "Ok", bits |-> r.bits, proof |-> Blake3(r.hashed)]

\* IdealCOT::correlated : msg ^ delta where the choice bit is set
CotCorrelated(delta, msgs, choices) ==
    [i \in 1..Len(msgs) |-> IF choices[i] THEN BXor(msgs[i], delta) ELSE msgs[i]]


-----------------------------------------------------------------------------
(* Payloads and decode futures *)

AssignKinds == {"Public", "Private", "Blind"}

\* AssignOp { slice, kind }
AssignOp(slice, kind) == [slice |-> slice, kind |-> kind]

\* DecodeOp { slice, chan }: fut names the DecodeFuture the channel feeds
DecodeOp(slice, fut) == [slice |-> slice, fut |-> fut]

\* A DecodeFuture that has not received / has received its value
FutPending == [done |-> FALSE, val |-> <<>>]
FutReady(val) == [done |-> TRUE, val |-> val]

\* A DecodeFuture that was dropped: the receiver of the oneshot channel is gone
FutCanceled == [done |-> FALSE, val |-> <<>>, canceled |-> TRUE]
FutIsCanceled(fut) == "canceled" \in DOMAIN fut

DecodeSendStrict(fut, data) ==
    IF FutIsCanceled(fut) THEN [err |-> "Decode", fut |-> fut]
    ELSE [err |-> "Ok", fut |-> FutReady(data)]

\* DecodeOp::send.  `if let Some(chan) = self.chan.take()`: the sender is
\* gone once a value was sent through it, and a second send returns
\* DecodeError.  `_ = chan.send(data)`: the result of the oneshot send is
\* ignored, so the value is discarded when the receiver is gone
DecodeSend(fut, data) ==
    IF fut.done THEN [err |-> "Decode", fut |-> fut]
    ELSE [err |-> "Ok", fut |-> IF FutIsCanceled(fut) THEN fut ELSE FutReady(data)]

SlicesOf(ops) == [i \in 1..Len(ops) |-> ops[i].slice]

\* The loop `for range in idx.iter_ranges() { store.try_set(slice,
\* &values[i..i + slice.size()])?; i += slice.size(); }`
RECURSIVE TrySetRanges(_, _, _, _)
TrySetRanges(store, ranges, values, i) ==
    IF ranges = <<>> THEN [err |-> "Ok", store |-> store]
    ELSE LET slice == FromRange(Head(ranges))
         IN  IF i + slice.size > Len(values)
             THEN [err |-> "Panic", store |-> store]
             ELSE LET r == StoreTrySet(store, slice,
                               SubSeq(values, i + 1, i + slice.size))
                  IN  IF r.err # "Ok" THEN [err |-> r.err, store |-> store]
                      ELSE TrySetRanges(r.store, Tail(ranges), values,
                                        i + slice.size)

-----------------------------------------------------------------------------
(* GeneratorStore (mpz-garble-core) *)

GenNew(delta) ==
    [key_store |-> KsNew(delta), data_store |-> StoreNew,
     buffer_assign |-> <<>>, buffer_send_key_bits |-> <<>>,
     buffer_decode |-> <<>>, call_stack |-> <<>>]

GenWantsAssign(g) == g.buffer_assign # <<>>

GenWantsSendKeyBits(g) ==
    \E i \in 1..Len(g.buffer_send_key_bits) :
        KsIsSet(g.key_store, g.buffer_send_key_bits[i])

GenWantsVerifyData(g) ==
    \E i \in 1..Len(g.buffer_decode) :
        KsIsSet(g.key_store, g.buffer_decode[i].slice)

\* GeneratorStore::alloc : keys drawn from the PRG, data left unset
GenAlloc(g, keys) ==
    [g EXCEPT !.key_store = KsAllocWith(g.key_store, keys),
              !.data_store = StoreAlloc(g.data_store, Len(keys), FALSE)]

\* an alloc_output that grows the data arena only
GenAllocOutputDataOnly(g, len) ==
    [g EXCEPT !.data_store = StoreAlloc(g.data_store, len, FALSE)]

\* GeneratorStore::alloc_output
GenAllocOutput(g, len) ==
    [g EXCEPT !.key_store = KsAlloc(g.key_store, len),
              !.data_store = StoreAlloc(g.data_store, len, FALSE)]

\* GeneratorStore::set_output
GenSetOutput(g, slice, keys) ==
    LET r == KsTrySet(g.key_store, slice, keys)
    IN  [err |-> r.err, gen |-> [g EXCEPT !.key_store = r.ks]]

\* GeneratorStore::assign_public / assign_private
GenAssignData(g, slice, data, kind) ==
    LET r == StoreTrySet(g.data_store, slice, data)
    IN  IF r.err # "Ok" THEN [err |-> r.err, gen |-> g]
        ELSE [err |-> "Ok",
              gen |-> [g EXCEPT !.data_store = r.store,
                                !.buffer_assign = Append(g.buffer_assign,
                                                      AssignOp(slice, kind))]]

GenAssignPublic(g, slice, data) == GenAssignData(g, slice, data, "Public")

GenAssignPrivate(g, slice, data) == GenAssignData(g, slice, data, "Private")

\* GeneratorStore::assign_blind
GenAssignBlind(g, slice) ==
    [g EXCEPT !.buffer_assign = Append(g.buffer_assign, AssignOp(slice, "Blind"))]

\* GeneratorStore::decode
GenDecode(g, slice, fut) ==
    [g EXCEPT !.buffer_send_key_bits = Append(g.buffer_send_key_bits, slice),
              !.buffer_decode = Append(g.buffer_decode, DecodeOp(slice, fut))]

\* for slice in &idx_oblivious { keys.extend(key_store.oblivious_transfer(slice)?) }
RECURSIVE GenOtLoop(_, _, _)
GenOtLoop(k, slices, keys) ==
    IF slices = <<>> THEN [err |-> "Ok", ks |-> k, keys |-> keys]
    ELSE LET r == KsObliviousTransfer(k, Head(slices))
         IN  IF r.err # "Ok" THEN [err |-> r.err, ks |-> k, keys |-> keys]
             ELSE GenOtLoop(r.ks, Tail(slices), keys \o r.keys)

\* for slice in &idx_direct { macs.extend(key_store.authenticate(slice, data)?) }
RECURSIVE GenAuthLoop(_, _, _, _)
GenAuthLoop(k, data_store, slices, macs) ==
    IF slices = <<>> THEN [err |-> "Ok", ks |-> k, macs |-> macs]
    ELSE LET d == StoreTryGet(data_store, Head(slices))
             r == KsAuthenticate(k, Head(slices), d.val)
         IN  IF d.err # "Ok" THEN [err |-> "Panic", ks |-> k, macs |-> macs]
             ELSE IF r.err # "Ok" THEN [err |-> r.err, ks |-> k, macs |-> macs]
             ELSE GenAuthLoop(r.ks, data_store, Tail(slices), macs \o r.macs)

NoAssignPayload == [idx_direct |-> {}, idx_oblivious |-> {}, macs |-> <<>>]

\* GeneratorStore::execute_assign
GenExecuteAssign(g) ==
    LET Ready(op) == KsIsSet(g.key_store, op.slice)
        ops    == SelectSeq(g.buffer_assign, Ready)
        direct == SlicesOf(SelectSeq(ops, LAMBDA op : op.kind \in {"Public", "Private"}))
        obliv  == SlicesOf(SelectSeq(ops, LAMBDA op : op.kind = "Blind"))
        ot     == GenOtLoop(g.key_store, obliv, <<>>)
        au     == GenAuthLoop(ot.ks, g.data_store, direct, <<>>)
        g1     == [g EXCEPT !.buffer_assign = SelectSeq(g.buffer_assign, LAMBDA op : ~Ready(op))]
    IN  IF ot.err # "Ok"
        THEN [err |-> ot.err, gen |-> [g1 EXCEPT !.key_store = ot.ks],
              payload |-> NoAssignPayload, keys |-> <<>>]
        ELSE IF au.err # "Ok"
        THEN [err |-> au.err, gen |-> [g1 EXCEPT !.key_store = au.ks],
              payload |-> NoAssignPayload, keys |-> <<>>]
        ELSE [err |-> "Ok", gen |-> [g1 EXCEPT !.key_store = au.ks],
              payload |-> [idx_direct |-> ToRangeSet(direct),
                           idx_oblivious |-> ToRangeSet(obliv),
                           macs |-> au.macs],
              keys |-> ot.keys]

RECURSIVE KeyBitsOf(_, _)
KeyBitsOf(k, slices) ==
    IF slices = <<>> THEN <<>>
    ELSE KsTryGetBits(k, Head(slices)).val \o KeyBitsOf(k, Tail(slices))

\* GeneratorStore::send_key_bits
GenSendKeyBits(g) ==
    LET Ready(slice) == KsIsSet(g.key_store, slice)
        idx == SelectSeq(g.buffer_send_key_bits, Ready)
    IN  [err |-> "Ok",
         gen |-> [g EXCEPT !.buffer_send_key_bits =
                               SelectSeq(g.buffer_send_key_bits, LAMBDA op : ~Ready(op))],
         payload |-> [idx |-> ToRangeSet(idx),
                      key_bits |-> KeyBitsOf(g.key_store, idx)]]

\* GeneratorStore::verify_data
GenVerifyData(g, payload) ==
    LET v == KsVerify(g.key_store, payload.idx, payload.bits, payload.proof)
        t == TrySetRanges(g.data_store, IterRanges(payload.idx), v.bits, 0)
    IN  IF v.err # "Ok" THEN [err |-> v.err, gen |-> g]
        ELSE [err |-> t.err, gen |-> [g EXCEPT !.data_store = t.store]]

\* The futures after the decode ops of `ops` were sent the data of `store`
Resolve(futs, ops, store) ==
    [k \in 1..Len(futs) |->
        IF \E i \in 1..Len(ops) : ops[i].fut = k
        THEN LET i == CHOOSE i \in 1..Len(ops) : ops[i].fut = k
             IN  DecodeSend(futs[k], StoreRead(store, ops[i].slice)).fut
        ELSE futs[k]]

\* op.send(data).unwrap() over `ops`: a panic when one send returns an error
SendAll(futs, ops, store) ==
    IF \E i \in 1..Len(ops) :
          /\ ops[i].fut \in 1..Len(futs)
          /\ DecodeSend(futs[ops[i].fut], StoreRead(store, ops[i].slice)).err # "Ok"
    THEN "Panic" ELSE "Ok"

\* GeneratorStore::execute_decode with a drain that keeps the ops it sends
GenExecuteDecodeKeep(g, futs) ==
    LET Ready(op) == StoreIsSet(g.data_store, op.slice)
    IN  [err  |-> SendAll(futs, SelectSeq(g.buffer_decode, Ready), g.data_store),
         gen  |-> g,
         futs |-> Resolve(futs, SelectSeq(g.buffer_decode, Ready), g.data_store)]

\* GeneratorStore::execute_decode
GenExecuteDecode(g, futs) ==
    LET Ready(op) == StoreIsSet(g.data_store, op.slice)
    IN  [err  |-> SendAll(futs, SelectSeq(g.buffer_decode, Ready), g.data_store),
         gen  |-> [g EXCEPT !.buffer_decode = SelectSeq(g.buffer_decode, LAMBDA op : ~Ready(op))],
         futs |-> Resolve(futs, SelectSeq(g.buffer_decode, Ready), g.data_store)]

-----------------------------------------------------------------------------
(* EvaluatorStore (mpz-garble-core) *)

EvNew ==
    [mac_store |-> MsNew, key_bit_store |-> StoreNew, data_store |-> StoreNew,
     buffer_assign |-> <<>>, buffer_decode |-> <<>>,
     call_stack |-> <<>>, preprocessed |-> <<>>]

EvWantsAssign(e) == e.buffer_assign # <<>>

EvWantsKeyBits(e) ==
    \E i \in 1..Len(e.buffer_decode) :
        /\ ~StoreIsSet(e.key_bit_store, e.buffer_decode[i].slice)
        /\ MsIsSet(e.mac_store, e.buffer_decode[i].slice)

EvWantsDecode(e) ==
    \E i \in 1..Len(e.buffer_decode) :
        /\ StoreIsSet(e.key_bit_store, e.buffer_decode[i].slice)
        /\ MsIsSet(e.mac_store, e.buffer_decode[i].slice)

\* EvaluatorStore::alloc
EvAlloc(e, len) ==
    [e EXCEPT !.mac_store = MsAlloc(e.mac_store, len),
              !.key_bit_store = StoreAlloc(e.key_bit_store, len, FALSE),
              !.data_store = StoreAlloc(e.data_store, len, FALSE)]

\* EvaluatorStore::try_set_macs
EvTrySetMacs(e, slice, macs) ==
    LET r == MsTrySet(e.mac_store, slice, macs)
    IN  [err |-> r.err, ev |-> [e EXCEPT !.mac_store = r.ms]]

\* EvaluatorStore::assign_public / assign_private ; a store error reaches
\* todo!() through From<StoreError>
EvAssignData(e, slice, data, kind) ==
    LET r == StoreTrySet(e.data_store, slice, data)
    IN  IF r.err # "Ok" THEN [err |-> "Panic", ev |-> e]
        ELSE [err |-> "Ok",
              ev |-> [e EXCEPT !.data_store = r.store,
                               !.buffer_assign = Append(e.buffer_assign,
                                                     AssignOp(slice, kind))]]

EvAssignPublic(e, slice, data) == EvAssignData(e, slice, data, "Public")

EvAssignPrivate(e, slice, data) == EvAssignData(e, slice, data, "Private")

\* EvaluatorStore::assign_blind
EvAssignBlind(e, slice) ==
    [e EXCEPT !.buffer_assign = Append(e.buffer_assign, AssignOp(slice, "Blind"))]

\* EvaluatorStore::decode
EvDecode(e, slice, fut) ==
    [e EXCEPT !.buffer_decode = Append(e.buffer_decode, DecodeOp(slice, fut))]

RECURSIVE DataOf(_, _)
DataOf(store, slices) ==
    IF slices = <<>> THEN <<>>
    ELSE StoreRead(store, Head(slices)) \o DataOf(store, Tail(slices))

\* EvaluatorStore::execute_assign : the store, the slices the ReceiveAssign
\* holds and the choice bits of the oblivious transfer
EvExecuteAssign(e) ==
    LET ops == e.buffer_assign
        direct == SlicesOf(SelectSeq(ops, LAMBDA op : op.kind \in {"Public", "Blind"}))
        obliv  == SlicesOf(SelectSeq(ops, LAMBDA op : op.kind = "Private"))
    IN  [err |-> IF \A i \in 1..Len(obliv) : StoreIsSet(e.data_store, obliv[i])
                 THEN "Ok" ELSE "Panic",
         ev  |-> [e EXCEPT !.buffer_assign = <<>>],
         direct |-> direct,
         oblivious |-> obliv,
         choices |-> DataOf(e.data_store, obliv)]

\* ReceiveAssign::receive ; a mismatch of the index sets is todo!(), and a
\* store error reaches todo!() through From<MacStoreError>
EvReceive(e, direct, oblivious, payload, oblivious_macs) ==
    LET d == TrySetRanges(e.mac_store.macs, IterRanges(payload.idx_direct),
                          payload.macs, 0)
        o == TrySetRanges(d.store, IterRanges(payload.idx_oblivious),
                          oblivious_macs, 0)
    IN  IF payload.idx_direct # ToRangeSet(direct) THEN [err |-> "Panic", ev |-> e]
        ELSE IF payload.idx_oblivious # ToRangeSet(oblivious)
        THEN [err |-> "Panic", ev |-> e]
        ELSE IF d.err # "Ok"
        THEN [err |-> "Panic", ev |-> [e EXCEPT !.mac_store.macs = d.store]]
        ELSE [err |-> IF o.err # "Ok" THEN "Panic" ELSE "Ok",
              ev  |-> [e EXCEPT !.mac_store.macs = o.store]]

\* EvaluatorStore::receive_key_bits
EvReceiveKeyBits(e, payload) ==
    LET r == TrySetRanges(e.key_bit_store, IterRanges(payload.idx),
                          payload.key_bits, 0)
    IN  [err |-> IF r.err # "Ok" THEN "Panic" ELSE "Ok",
         ev  |-> [e EXCEPT !.key_bit_store = r.store]]

NoMacPayload == [idx |-> {}, bits |-> <<>>, proof |-> Blake3(<<>>)]

\* EvaluatorStore::execute_decode
EvExecuteDecode(e, futs) ==
    LET Ready(op) == StoreTryGet(e.data_store, op.slice).err = "Ok"
        ops == SelectSeq(e.buffer_decode, Ready)
        idx == ToRangeSet(SlicesOf(ops))
        p   == MsProve(e.mac_store, idx)
        e1  == [e EXCEPT !.buffer_decode = SelectSeq(e.buffer_decode, LAMBDA op : ~Ready(op))]
        f1  == Resolve(futs, ops, e.data_store)
    IN  IF p.err # "Ok" \/ SendAll(futs, ops, e.data_store) # "Ok"
        THEN [err |-> "Panic", ev |-> e1, futs |-> f1, payload |-> NoMacPayload]
        ELSE [err |-> "Ok", ev |-> e1, futs |-> f1,
              payload |-> [idx |-> idx, bits |-> p.bits, proof |-> p.proof]]

-----------------------------------------------------------------------------
(* Values of the variables a specification does not use *)

IdleKeys  == /\ ks = KsNew(1) /\ ms = MsNew
             /\ last = [op |-> "none"] /\ released = <<>>
IdleCorr  == corr = [pc |-> "idle"]
IdleStore == /\ gen = [pc |-> "idle"] /\ ev = [pc |-> "idle"]
             /\ st = [pc |-> "idle"] /\ gfut = <<>> /\ efut = <<>>
IdleNet   == /\ net = [pc |-> "idle"]
             /\ pcG = [call |-> "idle", at |-> "idle"]
             /\ pcE = [call |-> "idle", at |-> "idle"]

keysVars  == <<ks, ms, last, released>>
storeVars == <<gen, ev, st, gfut, efut>>
netVars   == <<net, pcG, pcE>>

-----------------------------------------------------------------------------
(* SpecKeys: any sequence of KeyStore calls *)

\* Slices a caller may pass: inside the arena, across its end, or overlapping
\* earlier allocations (Slice::new_unchecked / from_range_unchecked).
Slices == {SliceNew(p, n) : p \in 0..(MaxArena - 1), n \in SliceLens}

Bump(rel, s) ==
    [i \in DOMAIN rel |-> IF (i - 1) \in ToRange(s) /\ rel[i] < 2
                          THEN rel[i] + 1 ELSE rel[i]]

KeysInit ==
    /\ \E v \in Block : ks = KsNew(DeltaNew(v))
    /\ ms = MsNew
    /\ last = [op |-> "new", slice |-> SliceNew(0, 0), err |-> "Ok"]
    /\ released = <<>>
    /\ IdleCorr /\ IdleStore /\ IdleNet

KeysAlloc ==
    \E len \in SliceLens :
        /\ StoreLen(ks.keys) + len <= MaxArena
        /\ ks' = KsAlloc(ks, len)
        /\ released' = released \o [i \in 1..len |-> 0]
        /\ last' = [op |-> "alloc", slice |-> AllocSlice(ks.keys, len), err |-> "Ok"]
        /\ UNCHANGED <<ms, corr, storeVars, netVars>>

KeysAllocWith ==
    \E len \in SliceLens : \E keys \in UniformKeys(len) :
        /\ StoreLen(ks.keys) + len <= MaxArena
        /\ ks' = KsAllocWith(ks, keys)
        /\ released' = released \o [i \in 1..len |-> 0]
        /\ last' = [op |-> "alloc_with", slice |-> AllocSlice(ks.keys, len), err |-> "Ok"]
        /\ UNCHANGED <<ms, corr, storeVars, netVars>>

KeysTrySet ==
    \E s \in Slices : \E keys \in UniformKeys(s.size) :
        LET r == KsTrySet(ks, s, keys) IN
        /\ ks' = r.ks
        /\ last' = [op |-> "try_set", slice |-> s, err |-> r.err, val |-> keys]
        /\ UNCHANGED <<ms, released, corr, storeVars, netVars>>

KeysAuthenticate ==
    \E s \in Slices : \E data \in UniformBits(s.size) :
        LET r == KsAuthenticate(ks, s, data) IN
        /\ ks' = r.ks
        /\ released' = IF r.err = "Ok" THEN Bump(released, s) ELSE released
        /\ last' = [op |-> "authenticate", slice |-> s, err |-> r.err]
        /\ UNCHANGED <<ms, corr, storeVars, netVars>>

KeysObliviousTransfer ==
    \E s \in Slices :
        LET r == KsObliviousTransfer(ks, s) IN
        /\ ks' = r.ks
        /\ released' = IF r.err = "Ok" THEN Bump(released, s) ELSE released
        /\ last' = [op |-> "oblivious_transfer", slice |-> s, err |-> r.err]
        /\ UNCHANGED <<ms, corr, storeVars, netVars>>

KeysAdjust ==
    \E s \in Slices : \E bits \in UniformBits(s.size) :
        LET r == KsAdjust(ks, s, bits) IN
        /\ ks' = r.ks
        /\ last' = [op |-> "adjust", slice |-> s, err |-> r.err]
        /\ UNCHANGED <<ms, released, corr, storeVars, netVars>>

KeysNext ==
    \/ KeysAlloc
    \/ KeysAllocWith
    \/ KeysTrySet
    \/ KeysAuthenticate
    \/ KeysObliviousTransfer
    \/ KeysAdjust

SpecKeys == KeysInit /\ [][KeysNext]_vars

ReleaseOps == {"authenticate", "oblivious_transfer"}

\* One authenticate / oblivious_transfer call, judged against the state before it.
ReleaseStep ==
    (last'.op \in ReleaseOps) =>
        LET r == ToRange(last'.slice) IN
        /\ (r \cap ks.used # {}) =>
               (last'.err = "AlreadyAssigned" /\ ks' = ks)
        /\ (r \cap ks.used = {} /\ ~(r \subseteq ks.keys.set)) =>
               (last'.err = "Uninit" /\ ks' = ks)
        /\ (r \cap ks.used = {} /\ r \subseteq ks.keys.set) =>
               /\ last'.err = "Ok"
               /\ ks'.used = ks.used \cup r
               /\ ks'.keys = ks.keys

\* C5: keys are released at most once. For every key index at most one
\* authenticate / oblivious_transfer call covering it ever succeeds; a call on
\* a slice overlapping a used index returns AlreadyAssigned, a call on a slice
\* with no used index but an unset key returns Uninit, and a successful call
\* marks exactly the indices of its slice as used.
C5_ReleasedAtMostOnce ==
    [][ReleaseStep /\ \A i \in DOMAIN released' : released'[i] <= 1]_vars

\* A release was refused on a slice of which one key had been released and
\* another had not.
C5_Witness ==
    /\ last.op \in ReleaseOps
    /\ last.err = "AlreadyAssigned"
    /\ \E i \in ToRange(last.slice) : i \in ks.used /\ released[i + 1] = 1
    /\ \E j \in ToRange(last.slice) : j \in ks.keys.set /\ j \notin ks.used

-----------------------------------------------------------------------------
(* SpecLife: any sequence of calls on a KeyStore, or any sequence of calls  *)
(* on a MacStore.  The two stores share nothing, so a behaviour exercises   *)
(* one of them.                                                             *)

MacsAlloc ==
    \E len \in SliceLens :
        /\ StoreLen(ms.macs) + len <= MaxArena
        /\ ms' = MsAlloc(ms, len)
        /\ last' = [op |-> "mac_alloc", slice |-> AllocSlice(ms.macs, len), err |-> "Ok"]
        /\ UNCHANGED <<ks, released, corr, storeVars, netVars>>

MacsAllocWith ==
    \E len \in SliceLens : \E macs \in UniformKeys(len) :
        /\ StoreLen(ms.macs) + len <= MaxArena
        /\ ms' = MsAllocWith(ms, macs)
        /\ last' = [op |-> "mac_alloc_with", slice |-> AllocSlice(ms.macs, len),
                    err |-> "Ok"]
        /\ UNCHANGED <<ks, released, corr, storeVars, netVars>>

MacsTrySet ==
    \E s \in Slices : \E macs \in UniformKeys(s.size) :
        LET r == MsTrySet(ms, s, macs) IN
        /\ ms' = r.ms
        /\ last' = [op |-> "mac_try_set", slice |-> s, err |-> r.err, val |-> macs]
        /\ UNCHANGED <<ks, released, corr, storeVars, netVars>>

MacsTryAdjust ==
    \E s \in Slices : \E bits \in UniformBits(s.size) :
        LET r == MsTryAdjust(ms, s, bits) IN
        /\ ms' = r.ms
        /\ last' = [op |-> "mac_try_adjust", slice |-> s, err |-> r.err]
        /\ UNCHANGED <<ks, released, corr, storeVars, netVars>>

LifeKeys == StoreLen(ms.macs) = 0 /\ KeysNext

LifeMacs ==
    /\ StoreLen(ks.keys) = 0
    /\ (MacsAlloc \/ MacsAllocWith \/ MacsTrySet \/ MacsTryAdjust)

LifeNext == LifeKeys \/ LifeMacs

SpecLife == KeysInit /\ [][LifeNext]_vars

\* One try_set call on a slice of the arena, judged against the store before it
TrySetStep(store, after) ==
    LET s == last'.slice IN
    StoreValid(store, s) =>
        /\ (last'.err = "Ok") <=> (ToRange(s) \cap store.set = {})
        /\ (last'.err # "Ok") => (after = store)
        /\ (last'.err = "Ok") =>
               StoreTryGet(after, s) = [err |-> "Ok", val |-> last'.val]

\* C11: the lifecycle of a slice is monotone. Over any sequence of calls on a
\* KeyStore or on a MacStore an initialized index stays initialized and a used
\* index stays used; try_set on a slice of the arena succeeds exactly when no
\* index of the slice is initialized, changes nothing when it fails, and after
\* it succeeds try_get on the slice returns the values that were set.
C11_LifecycleMonotone ==
    [][/\ ks.keys.set \subseteq ks'.keys.set
       /\ ks.used \subseteq ks'.used
       /\ ms.macs.set \subseteq ms'.macs.set
       /\ (last'.op = "try_set") => TrySetStep(ks.keys, ks'.keys)
       /\ (last'.op = "mac_try_set") => TrySetStep(ms.macs, ms'.macs)]_vars

\* try_set was refused on a slice of which one index was initialized and
\* another was not, in a store that also holds a used key.
C11_Witness ==
    /\ last.op = "try_set" /\ last.err = "AlreadySet"
    /\ StoreValid(ks.keys, last.slice)
    /\ \E i \in ToRange(last.slice) : i \in ks.keys.set
    /\ \E j \in ToRange(last.slice) : j \notin ks.keys.set
    /\ ks.used # {}

-----------------------------------------------------------------------------
(* SpecCorr: one round of the correlated store, as test_correlated_store    *)
(* runs it: slices are allocated and assigned through authenticate or       *)
(* through oblivious_transfer and a correlated OT, a slice may be           *)
(* derandomized, the Receiver's memory may be corrupted, and a range set is *)
(* proved and verified.                                                     *)

KeyAt(i) == ks.keys.data[i + 1]
MacAt(i) == ms.macs.data[i + 1]

\* Indices holding a MAC
Assigned == ms.macs.set

NoRet == [via |-> "none", slice |-> SliceNew(0, 0), x |-> <<>>, macs |-> <<>>]

CorrInit ==
    /\ \E v \in Block : ks = KsNew(DeltaNew(v))
    /\ ms = MsNew
    /\ last = [op |-> "none"]
    /\ released = <<>>
    /\ corr = [pc |-> "setup", slices |-> {}, vals |-> <<>>, via |-> <<>>,
               ret |-> NoRet,
               derand |-> {}, tampered |-> {}, ranges |-> {},
               bits |-> <<>>, proof |-> Blake3(<<>>), err |-> "Ok", out |-> <<>>]
    /\ IdleStore /\ IdleNet

\* keys.alloc_with; macs.alloc; keys.authenticate; macs.try_set
CorrAuthenticate ==
    \E len \in SliceLens : \E keys \in UniformKeys(len) : \E x \in BitSeqs(len) :
        LET slice == AllocSlice(ks.keys, len)
            a     == KsAuthenticate(KsAllocWith(ks, keys), slice, x)
            m     == MsTrySet(MsAlloc(ms, len), slice, a.macs)
        IN  /\ corr.pc = "setup"
            /\ corr.derand = {} /\ corr.tampered = {}
            /\ StoreLen(ks.keys) + len <= MaxArena
            /\ a.err = "Ok" /\ m.err = "Ok"
            /\ ks' = a.ks
            /\ ms' = m.ms
            /\ corr' = [corr EXCEPT
                   !.slices = corr.slices \cup {slice},
                   !.vals = corr.vals \o x,
                   !.via  = corr.via \o [i \in 1..len |-> "authenticate"],
                   !.ret  = [via |-> "authenticate", slice |-> slice,
                             x |-> x, macs |-> a.macs]]
            /\ UNCHANGED <<last, released, storeVars, netVars>>

\* keys.alloc_with; macs.alloc; keys.oblivious_transfer; cot.correlated;
\* macs.try_set
CorrObliviousTransfer ==
    \E len \in SliceLens : \E keys \in UniformKeys(len) : \E x \in BitSeqs(len) :
        LET slice == AllocSlice(ks.keys, len)
            o     == KsObliviousTransfer(KsAllocWith(ks, keys), slice)
            macs  == CotCorrelated(ks.delta, o.keys, x)
            m     == MsTrySet(MsAlloc(ms, len), slice, macs)
        IN  /\ corr.pc = "setup"
            /\ corr.derand = {} /\ corr.tampered = {}
            /\ StoreLen(ks.keys) + len <= MaxArena
            /\ o.err = "Ok" /\ m.err = "Ok"
            /\ ks' = o.ks
            /\ ms' = m.ms
            /\ corr' = [corr EXCEPT
                   !.slices = corr.slices \cup {slice},
                   !.vals = corr.vals \o x,
                   !.via  = corr.via \o [i \in 1..len |-> "ot"],
                   !.ret  = [via |-> "ot", slice |-> slice,
                             x |-> x, macs |-> macs]]
            /\ UNCHANGED <<last, released, storeVars, netVars>>

\* Slices allocated so far that hold MACs on the Receiver's OT choices
OtSlices == {s \in corr.slices : corr.via[s.ptr + 1] = "ot"}

\* Derandomization of a slice: the Receiver sends d = x ^ r, the Sender calls
\* KeyStore::adjust with d, the Receiver calls MacStore::try_adjust with the
\* bits that make LSB(M) = x.
CorrDerandomize ==
    \E s \in OtSlices : \E x \in BitSeqs(s.size) :
        LET r   == [i \in 1..s.size |-> corr.vals[s.ptr + i]]
            d   == [i \in 1..s.size |-> x[i] # r[i]]
            e   == [i \in 1..s.size |-> Lsb(MacAt(s.ptr + i - 1)) # x[i]]
            ka  == KsAdjust(ks, s, d)
            ma  == MsTryAdjust(ms, s, e)
        IN  /\ corr.pc = "setup"
            /\ corr.tampered = {} /\ corr.derand = {}
            /\ ka.err = "Ok" /\ ma.err = "Ok"
            /\ ks' = ka.ks
            /\ ms' = ma.ms
            /\ corr' = [corr EXCEPT
                   !.vals = [i \in 1..Len(corr.vals) |->
                                IF (i - 1) \in ToRange(s) THEN x[i - s.ptr]
                                ELSE corr.vals[i]],
                   !.derand = corr.derand \cup ToRange(s)]
            /\ UNCHANGED <<last, released, storeVars, netVars>>

\* One MAC of the Receiver's memory is replaced before the proof is computed.
CorrTamper ==
    \E i \in Assigned : \E m \in Block \ {MacAt(i)} :
        /\ corr.pc = "setup"
        /\ corr.tampered = {} /\ corr.derand = {}
        /\ ms' = [ms EXCEPT !.macs.data[i + 1] = m]
        /\ corr' = [corr EXCEPT !.tampered = {i}]
        /\ UNCHANGED <<ks, last, released, storeVars, netVars>>

\* macs.prove(&Slice::to_rangeset(slices)) for some of the allocated slices
CorrProve ==
    \E T \in (SUBSET corr.slices) \ {{}} :
        LET R == UNION {ToRange(s) : s \in T}
            p == MsProve(ms, R)
        IN  /\ corr.pc = "setup"
            /\ p.err = "Ok"
            /\ corr' = [corr EXCEPT !.pc = "proved", !.ranges = R,
                                    !.bits = p.bits, !.proof = p.proof]
            /\ UNCHANGED <<ks, ms, last, released, storeVars, netVars>>

\* keys.verify(&ranges, &mut bits, hash)
CorrVerify ==
    LET v == KsVerify(ks, corr.ranges, corr.bits, corr.proof)
    IN  /\ corr.pc = "proved"
        /\ corr' = [corr EXCEPT !.pc = "done", !.err = v.err, !.out = v.bits]
        /\ UNCHANGED <<ks, ms, last, released, storeVars, netVars>>

CorrNext ==
    \/ CorrAuthenticate
    \/ CorrObliviousTransfer
    \/ CorrDerandomize
    \/ CorrTamper
    \/ CorrProve
    \/ CorrVerify

SpecCorr == CorrInit /\ [][CorrNext]_vars

\* The indices of a set in ascending order
RECURSIVE Ascending(_)
Ascending(S) ==
    IF S = {} THEN <<>>
    ELSE LET a == CHOOSE x \in S : \A y \in S : x <= y
         IN  <<a>> \o Ascending(S \ {a})

\* M = K xor x*Delta at index i
Authentic(i, x) == MacAt(i) = BXor(KeyAt(i), IF x THEN ks.delta ELSE BlockZERO)

\* The value a MAC authenticates, when it authenticates one
ValueAt(i) == CHOOSE x \in BOOLEAN : Authentic(i, x)

\* The range set of the round holds a MAC that is neither K nor K xor Delta.
Forged == \E i \in corr.ranges : \A x \in BOOLEAN : ~Authentic(i, x)

\* C6: tamper rejection. If a MAC of the proved ranges differs from
\* K xor x*Delta for both x, KeyStore::verify returns the Verify error and
\* the caller's bit slice is left as it was passed in.
C6_TamperRejected ==
    (corr.pc = "done" /\ Forged) =>
        (corr.err = "Verify" /\ corr.out = corr.bits)

\* A proof over two indices was rejected, one MAC differing from the authentic
\* one in its non-pointer bit only.
C6_Witness ==
    /\ corr.pc = "done"
    /\ Cardinality(corr.ranges) >= 2
    /\ \E i \in corr.ranges :
           MacAt(i) = BXor(BXor(KeyAt(i), IF corr.vals[i + 1] THEN ks.delta
                                          ELSE BlockZERO), 2)
    /\ corr.err = "Verify"
    /\ corr.out = corr.bits

\* C8: prove/verify round trip. If every index of the range set holds
\* M = K xor x*Delta, verify called with the output of prove succeeds and
\* leaves in bits the values x in ascending index order, also for a range set
\* that is the union of several slices.
C8_RoundTrip ==
    (corr.pc = "done" /\ ~Forged) =>
        /\ corr.err = "Ok"
        /\ corr.out = [j \in 1..Cardinality(corr.ranges) |->
                          ValueAt(Ascending(corr.ranges)[j])]

\* A proof over two slices that are not adjacent, authenticating different
\* values under keys whose pointer bit is set, was accepted.
C8_Witness ==
    /\ corr.pc = "done"
    /\ corr.ranges = {0, 2}
    /\ ~Forged
    /\ ValueAt(0) # ValueAt(2)
    /\ Lsb(KeyAt(0)) /\ Lsb(KeyAt(2))
    /\ corr.err = "Ok"
    /\ corr.out = <<ValueAt(0), ValueAt(2)>>

\* C9: pointer-bit relation. The MACs returned by authenticate(slice, x), and
\* the MACs a correlated OT with choice bits x makes of the keys returned by
\* oblivious_transfer(slice), are M_i = K_i xor x_i*Delta and satisfy
\* LSB(M_i) xor LSB(K_i) = x_i at every position.
C9_PointerBit ==
    (corr.pc # "idle" /\ corr.ret.via # "none"
        /\ ToRange(corr.ret.slice) \cap corr.derand = {}) =>
        \A i \in 1..corr.ret.slice.size :
            LET K == KeyAt(corr.ret.slice.ptr + i - 1)
                M == corr.ret.macs[i]
                x == corr.ret.x[i]
            IN  /\ M = BXor(K, IF x THEN ks.delta ELSE BlockZERO)
                /\ (Lsb(M) # Lsb(K)) = x

\* MACs on set bits were returned on both paths, under keys whose pointer bit
\* is set.
C9_Witness ==
    /\ corr.pc = "setup"
    /\ corr.ret.via = "ot"
    /\ corr.derand = {}
    /\ \E i \in 1..corr.ret.slice.size :
           corr.ret.x[i] /\ Lsb(KeyAt(corr.ret.slice.ptr + i - 1))
    /\ \E j \in 1..Len(corr.via) :
           corr.via[j] = "authenticate" /\ corr.vals[j] /\ Lsb(KeyAt(j - 1))

\* C10: derandomization. After a slice is derandomized to x with
\* KeyStore::adjust and MacStore::try_adjust, key and MAC satisfy
\* M = K xor x*Delta and LSB(M) = LSB(K) xor x, and prove/verify over
\* derandomized indices succeeds and recovers x.
C10_Derandomized ==
    /\ \A i \in corr.derand \ corr.tampered :
           /\ Authentic(i, corr.vals[i + 1])
           /\ Lsb(MacAt(i)) = (Lsb(KeyAt(i)) # corr.vals[i + 1])
    /\ (corr.pc = "done" /\ corr.ranges \subseteq corr.derand
            /\ corr.ranges \cap corr.tampered = {}) =>
           /\ corr.err = "Ok"
           /\ corr.out = [j \in 1..Cardinality(corr.ranges) |->
                             corr.vals[Ascending(corr.ranges)[j] + 1]]

-----------------------------------------------------------------------------
(* SpecStore: one assign + decode round of a GeneratorStore and an          *)
(* EvaluatorStore, in the order test_store_decode calls them.  Every step   *)
(* records what it returned; the MAC payload may be altered on its way to   *)
(* the generator.                                                           *)

NoDecodePayload == [idx |-> {}, key_bits |-> <<>>]

StepNames == {"execute_assign", "receive", "send_key_bits", "receive_key_bits",
              "ev_execute_decode", "verify_data", "gen_execute_decode"}

StNew ==
    [pc |-> "assign", slices |-> <<>>, kinds |-> <<>>, vals |-> <<>>,
     err |-> [s \in StepNames |-> "None"],
     payload |-> NoAssignPayload, keys |-> <<>>,
     key_bits |-> NoDecodePayload, mac |-> NoMacPayload,
     tampered |-> FALSE, snap |-> GenNew(1), pre |-> FALSE]

StInit ==
    /\ \E v \in Block : gen = GenNew(DeltaNew(v))
    /\ ev = EvNew
    /\ st = StNew
    /\ gfut = <<>> /\ efut = <<>>
    /\ IdleKeys /\ IdleCorr /\ IdleNet

\* A further slice may be allocated on both sides
CanAlloc(len) ==
    /\ st.pc = "assign"
    /\ Len(st.slices) < NSlices
    /\ StoreLen(gen.data_store) + len <= MaxArena

Assigned3(slice, kind, x) ==
    [st EXCEPT !.slices = Append(st.slices, slice),
               !.kinds = Append(st.kinds, kind),
               !.vals = Append(st.vals, x)]

\* gen.alloc; ev.alloc; gen.assign_public; ev.assign_public
StAssignPublic ==
    \E len \in SliceLens : \E keys \in UniformKeys(len) : \E x \in BitSeqs(len) :
        LET slice == AllocSlice(gen.data_store, len)
            g == GenAssignPublic(GenAlloc(gen, keys), slice, x)
            e == EvAssignPublic(EvAlloc(ev, len), slice, x)
        IN  /\ CanAlloc(len)
            /\ g.err = "Ok" /\ e.err = "Ok"
            /\ gen' = g.gen /\ ev' = e.ev
            /\ st' = Assigned3(slice, "Public", x)
            /\ UNCHANGED <<keysVars, corr, gfut, efut, netVars>>

\* gen.alloc; ev.alloc; gen.assign_private; ev.assign_blind
StAssignGenPrivate ==
    \E len \in SliceLens : \E keys \in UniformKeys(len) : \E x \in BitSeqs(len) :
        LET slice == AllocSlice(gen.data_store, len)
            g == GenAssignPrivate(GenAlloc(gen, keys), slice, x)
        IN  /\ CanAlloc(len)
            /\ g.err = "Ok"
            /\ gen' = g.gen
            /\ ev' = EvAssignBlind(EvAlloc(ev, len), slice)
            /\ st' = Assigned3(slice, "GenPrivate", x)
            /\ UNCHANGED <<keysVars, corr, gfut, efut, netVars>>

\* gen.alloc; ev.alloc; gen.assign_blind; ev.assign_private
StAssignEvPrivate ==
    \E len \in SliceLens : \E keys \in UniformKeys(len) : \E x \in BitSeqs(len) :
        LET slice == AllocSlice(gen.data_store, len)
            e == EvAssignPrivate(EvAlloc(ev, len), slice, x)
        IN  /\ CanAlloc(len)
            /\ e.err = "Ok"
            /\ gen' = GenAssignBlind(GenAlloc(gen, keys), slice)
            /\ ev' = e.ev
            /\ st' = Assigned3(slice, "EvPrivate", x)
            /\ UNCHANGED <<keysVars, corr, gfut, efut, netVars>>

\* gen.execute_assign()
StExecuteAssign ==
    LET r == GenExecuteAssign(gen)
    IN  /\ st.pc = "assign" /\ st.slices # <<>>
        /\ gen' = r.gen
        /\ st' = [st EXCEPT !.pc = "receive", !.err.execute_assign = r.err,
                            !.payload = r.payload, !.keys = r.keys]
        /\ UNCHANGED <<keysVars, corr, ev, gfut, efut, netVars>>

\* ev.execute_assign(); cot.correlated(keys, choices); receive.receive(payload, macs)
StReceive ==
    LET a == EvExecuteAssign(ev)
        macs == CotCorrelated(gen.key_store.delta, st.keys, a.choices)
        r == EvReceive(a.ev, a.direct, a.oblivious, st.payload, macs)
    IN  /\ st.pc = "receive"
        /\ ev' = r.ev
        /\ st' = [st EXCEPT !.pc = "decode", !.err.receive = r.err]
        /\ UNCHANGED <<keysVars, corr, gen, gfut, efut, netVars>>

RECURSIVE GenDecodeAll(_, _, _)
GenDecodeAll(g, slices, k) ==
    IF k > Len(slices) THEN g
    ELSE GenDecodeAll(GenDecode(g, slices[k], k), slices, k + 1)

RECURSIVE EvDecodeAll(_, _, _)
EvDecodeAll(e, slices, k) ==
    IF k > Len(slices) THEN e
    ELSE EvDecodeAll(EvDecode(e, slices[k], k), slices, k + 1)

\* gen.decode and ev.decode on every slice
StDecode ==
    /\ st.pc = "decode"
    /\ gen' = GenDecodeAll(gen, st.slices, 1)
    /\ ev' = EvDecodeAll(ev, st.slices, 1)
    /\ gfut' = [k \in 1..Len(st.slices) |-> FutPending]
    /\ efut' = [k \in 1..Len(st.slices) |-> FutPending]
    /\ st' = [st EXCEPT !.pc = "send_key_bits"]
    /\ UNCHANGED <<keysVars, corr, netVars>>

\* gen.send_key_bits()
StSendKeyBits ==
    LET r == GenSendKeyBits(gen)
    IN  /\ st.pc = "send_key_bits"
        /\ gen' = r.gen
        /\ st' = [st EXCEPT !.pc = "receive_key_bits", !.err.send_key_bits = r.err,
                            !.key_bits = r.payload]
        /\ UNCHANGED <<keysVars, corr, ev, gfut, efut, netVars>>

\* ev.receive_key_bits(payload)
StReceiveKeyBits ==
    LET r == EvReceiveKeyBits(ev, st.key_bits)
    IN  /\ st.pc = "receive_key_bits"
        /\ ev' = r.ev
        /\ st' = [st EXCEPT !.pc = "ev_execute_decode", !.err.receive_key_bits = r.err]
        /\ UNCHANGED <<keysVars, corr, gen, gfut, efut, netVars>>

\* ev.execute_decode()
StEvExecuteDecode ==
    LET r == EvExecuteDecode(ev, efut)
    IN  /\ st.pc = "ev_execute_decode"
        /\ ev' = r.ev
        /\ efut' = r.futs
        /\ st' = [st EXCEPT !.pc = "verify_data", !.err.ev_execute_decode = r.err,
                            !.mac = r.payload]
        /\ UNCHANGED <<keysVars, corr, gen, gfut, netVars>>

\* One pointer bit of the MAC payload is flipped before the generator reads it.
StTamper ==
    \E i \in 1..Len(st.mac.bits) :
        /\ st.pc = "verify_data"
        /\ ~st.tampered
        /\ st' = [st EXCEPT !.tampered = TRUE, !.mac.bits[i] = ~st.mac.bits[i]]
        /\ UNCHANGED <<keysVars, corr, gen, ev, gfut, efut, netVars>>

\* gen.verify_data(payload)
StVerifyData ==
    LET r == GenVerifyData(gen, st.mac)
    IN  /\ st.pc = "verify_data"
        /\ gen' = r.gen
        /\ st' = [st EXCEPT !.pc = "gen_execute_decode", !.err.verify_data = r.err,
                            !.snap = gen]
        /\ UNCHANGED <<keysVars, corr, ev, gfut, efut, netVars>>

\* gen.execute_decode()
StGenExecuteDecode ==
    LET r == GenExecuteDecode(gen, gfut)
    IN  /\ st.pc = "gen_execute_decode"
        /\ gen' = r.gen
        /\ gfut' = r.futs
        /\ st' = [st EXCEPT !.pc = "done", !.err.gen_execute_decode = r.err]
        /\ UNCHANGED <<keysVars, corr, ev, efut, netVars>>

StNext ==
    \/ StAssignPublic
    \/ StAssignGenPrivate
    \/ StAssignEvPrivate
    \/ StExecuteAssign
    \/ StReceive
    \/ StDecode
    \/ StSendKeyBits
    \/ StReceiveKeyBits
    \/ StEvExecuteDecode
    \/ StTamper
    \/ StVerifyData
    \/ StGenExecuteDecode

SpecStore == StInit /\ [][StNext]_vars

\* C1: generator-side decode faithfulness. In the untampered round every
\* step returns success and every generator-side decode future resolves to
\* the bits assigned to its slice, for each of the three assignment kinds.
C1_GenDecodeFaithful ==
    (st.pc = "done" /\ ~st.tampered) =>
        /\ \A s \in StepNames : st.err[s] = "Ok"
        /\ \A k \in 1..Len(st.slices) : gfut[k] = FutReady(st.vals[k])

\* C2: evaluator-side decode faithfulness. Once the evaluator has run
\* execute_decode, every evaluator-side decode future is resolved to the
\* assigned bits, slices assigned Blind included, and no decode op whose key
\* bits and MACs are both held is left pending.
C2_EvDecodeFaithful ==
    (st.pc \in {"verify_data", "gen_execute_decode", "done"}) =>
        /\ \A k \in 1..Len(st.slices) : efut[k] = FutReady(st.vals[k])
        /\ ~EvWantsDecode(ev)

\* C7: no release on failure. When verify_data returns an error the
\* generator's data store and pending decode ops are as before the call, and
\* the following execute_decode resolves no future of a slice the payload
\* covers.
C7_NoReleaseOnFailure ==
    (st.pc \in {"gen_execute_decode", "done"} /\ st.err.verify_data # "Ok") =>
        /\ gen.data_store = st.snap.data_store
        /\ (st.pc = "gen_execute_decode") =>
               (gen.buffer_decode = st.snap.buffer_decode)
        /\ (st.pc = "done") =>
               \A k \in 1..Len(st.slices) :
                   (ToRange(st.slices[k]) \subseteq st.mac.idx) => ~gfut[k].done

-----------------------------------------------------------------------------
(* The two commit tasks (mpz-garble store/generator.rs, store/evaluator.rs) *)
(* and the channel between them.  net.g2e and net.e2g are the two           *)
(* directions of the io channel, net.cot the ideal COT functionality,       *)
(* net.recv the evaluator's ReceiveAssign between execute_assign and        *)
(* receive.  pcG and pcE say which call a task is in and where.             *)

NoReceive == [direct |-> <<>>, oblivious |-> <<>>, choices |-> <<>>]

NetNew ==
    [g2e |-> <<>>, e2g |-> <<>>,
     cot |-> [state |-> "idle", keys |-> <<>>],
     recv |-> NoReceive]

Msg(type, body) == [type |-> type, body |-> body]

At(call, at) == [call |-> call, at |-> at]

Commits == {"commit", "commit1", "commit2"}

\* Where a task continues when its commit returns Ok
Return(pc) ==
    IF pc.call = "commit1" THEN At("execute", "start") ELSE At("done", pc.call)

\* The task ended with an error or a panic
Failed(pc, err) == [call |-> "failed", at |-> pc.call, err |-> err]

Ended(pc) == pc.call \in {"done", "failed"}

\* if wants_assign { execute_assign; send payload (and send_correlated) }
GenCommitAssign ==
    LET r == GenExecuteAssign(gen)
    IN  /\ pcG.call \in Commits /\ pcG.at = "assign"
        /\ IF ~GenWantsAssign(gen)
           THEN /\ pcG' = At(pcG.call, "key_bits")
                /\ UNCHANGED <<gen, net>>
           ELSE /\ gen' = r.gen
                /\ IF r.err # "Ok"
                   THEN /\ pcG' = Failed(pcG, r.err)
                        /\ UNCHANGED net
                   ELSE /\ net' = [net EXCEPT
                               !.g2e = Append(@, Msg("AssignPayload", r.payload)),
                               !.cot = IF r.keys = <<>> THEN @
                                       ELSE [state |-> "offered", keys |-> r.keys]]
                        /\ pcG' = At(pcG.call,
                                     IF r.keys = <<>> THEN "key_bits" ELSE "cot")
        /\ UNCHANGED <<keysVars, corr, ev, st, gfut, efut, pcE>>

\* send_correlated returns once the receiver has taken its MACs
GenCommitCot ==
    /\ pcG.call \in Commits /\ pcG.at = "cot"
    /\ net.cot.state = "delivered"
    /\ net' = [net EXCEPT !.cot = [state |-> "idle", keys |-> <<>>]]
    /\ pcG' = At(pcG.call, "key_bits")
    /\ UNCHANGED <<keysVars, corr, storeVars, pcE>>

\* if wants_send_key_bits { send_key_bits; send }
GenCommitKeyBits ==
    LET r == GenSendKeyBits(gen)
    IN  /\ pcG.call \in Commits /\ pcG.at = "key_bits"
        /\ IF ~GenWantsSendKeyBits(gen)
           THEN /\ pcG' = At(pcG.call, "verify")
                /\ UNCHANGED <<gen, net>>
           ELSE /\ gen' = r.gen
                /\ IF r.err # "Ok"
                   THEN /\ pcG' = Failed(pcG, r.err)
                        /\ UNCHANGED net
                   ELSE /\ net' = [net EXCEPT
                               !.g2e = Append(@, Msg("DecodePayload", r.payload))]
                        /\ pcG' = At(pcG.call, "verify")
        /\ UNCHANGED <<keysVars, corr, ev, st, gfut, efut, pcE>>

\* if wants_verify_data { expect_next; verify_data; execute_decode }; Ok(())
GenCommitVerify ==
    LET msg == Head(net.e2g)
        v == GenVerifyData(gen, msg.body)
        d == GenExecuteDecode(v.gen, gfut)
    IN  /\ pcG.call \in Commits /\ pcG.at = "verify"
        /\ GenWantsVerifyData(gen) => net.e2g # <<>>
        /\ IF ~GenWantsVerifyData(gen)
           THEN /\ pcG' = Return(pcG)
                /\ UNCHANGED <<gen, gfut, net>>
           ELSE /\ net' = [net EXCEPT !.e2g = Tail(@)]
                /\ IF msg.type # "MacPayload"
                   THEN /\ pcG' = Failed(pcG, "Io")
                        /\ UNCHANGED <<gen, gfut>>
                   ELSE IF v.err # "Ok"
                   THEN /\ pcG' = Failed(pcG, v.err)
                        /\ gen' = v.gen
                        /\ UNCHANGED gfut
                   ELSE /\ gen' = d.gen /\ gfut' = d.futs
                        /\ pcG' = IF d.err = "Ok" THEN Return(pcG)
                                  ELSE Failed(pcG, d.err)
        /\ UNCHANGED <<keysVars, corr, ev, st, efut, pcE>>

\* if wants_assign { execute_assign; ... }
EvCommitAssign ==
    LET a == EvExecuteAssign(ev)
    IN  /\ pcE.call \in Commits /\ pcE.at = "assign"
        /\ IF ~EvWantsAssign(ev)
           THEN /\ pcE' = At(pcE.call, "key_bits")
                /\ UNCHANGED <<ev, net>>
           ELSE /\ ev' = a.ev
                /\ IF a.err # "Ok"
                   THEN /\ pcE' = Failed(pcE, a.err)
                        /\ UNCHANGED net
                   ELSE /\ net' = [net EXCEPT !.recv =
                               [direct |-> a.direct, oblivious |-> a.oblivious,
                                choices |-> a.choices]]
                        /\ pcE' = At(pcE.call, "receive")
        /\ UNCHANGED <<keysVars, corr, gen, st, gfut, efut, pcG>>

\* expect_next (joined with receive_correlated if there are choices);
\* receive.receive(payload, macs)
EvCommitReceive ==
    LET msg == Head(net.g2e)
        rc == net.recv
        macs == IF rc.choices = <<>> THEN <<>>
                ELSE CotCorrelated(gen.key_store.delta, net.cot.keys, rc.choices)
        r == EvReceive(ev, rc.direct, rc.oblivious, msg.body, macs)
    IN  /\ pcE.call \in Commits /\ pcE.at = "receive"
        /\ net.g2e # <<>>
        /\ rc.choices # <<>> => net.cot.state = "offered"
        /\ net' = [net EXCEPT !.g2e = Tail(@), !.recv = NoReceive,
                              !.cot = IF rc.choices = <<>> THEN @
                                      ELSE [state |-> "delivered", keys |-> <<>>]]
        /\ IF msg.type # "AssignPayload"
           THEN /\ pcE' = Failed(pcE, "Io")
                /\ UNCHANGED ev
           ELSE /\ ev' = r.ev
                /\ pcE' = IF r.err = "Ok" THEN At(pcE.call, "key_bits")
                          ELSE Failed(pcE, r.err)
        /\ UNCHANGED <<keysVars, corr, gen, st, gfut, efut, pcG>>

\* if wants_key_bits { expect_next; receive_key_bits }
EvCommitKeyBits ==
    LET msg == Head(net.g2e)
        r == EvReceiveKeyBits(ev, msg.body)
    IN  /\ pcE.call \in Commits /\ pcE.at = "key_bits"
        /\ EvWantsKeyBits(ev) => net.g2e # <<>>
        /\ IF ~EvWantsKeyBits(ev)
           THEN /\ pcE' = At(pcE.call, "decode")
                /\ UNCHANGED <<ev, net>>
           ELSE /\ net' = [net EXCEPT !.g2e = Tail(@)]
                /\ IF msg.type # "DecodePayload"
                   THEN /\ pcE' = Failed(pcE, "Io")
                        /\ UNCHANGED ev
                   ELSE /\ ev' = r.ev
                        /\ pcE' = IF r.err = "Ok" THEN At(pcE.call, "decode")
                                  ELSE Failed(pcE, r.err)
        /\ UNCHANGED <<keysVars, corr, gen, st, gfut, efut, pcG>>

\* if wants_decode { execute_decode; send }; Ok(())
EvCommitDecode ==
    LET r == EvExecuteDecode(ev, efut)
    IN  /\ pcE.call \in Commits /\ pcE.at = "decode"
        /\ IF ~EvWantsDecode(ev)
           THEN /\ pcE' = Return(pcE)
                /\ UNCHANGED <<ev, efut, net>>
           ELSE /\ ev' = r.ev /\ efut' = r.futs
                /\ IF r.err # "Ok"
                   THEN /\ pcE' = Failed(pcE, r.err)
                        /\ UNCHANGED net
                   ELSE /\ net' = [net EXCEPT
                               !.e2g = Append(@, Msg("MacPayload", r.payload))]
                        /\ pcE' = Return(pcE)
        /\ UNCHANGED <<keysVars, corr, gen, st, gfut, pcG>>

\* A task waits for a message that its peer, having ended, will never send
GenStuck ==
    /\ pcG.call \in Commits /\ Ended(pcE)
    /\ \/ pcG.at = "cot" /\ net.cot.state # "delivered"
       \/ pcG.at = "verify" /\ GenWantsVerifyData(gen) /\ net.e2g = <<>>

EvStuck ==
    /\ pcE.call \in Commits /\ Ended(pcG)
    /\ \/ pcE.at = "receive"
          /\ (net.g2e = <<>> \/ (net.recv.choices # <<>> /\ net.cot.state # "offered"))
       \/ pcE.at = "key_bits" /\ EvWantsKeyBits(ev) /\ net.g2e = <<>>

-----------------------------------------------------------------------------
(* SpecCommit: both stores allocate and assign the same slices, decode all  *)
(* of them, and then run commit concurrently, as test_store does.           *)

CmInit ==
    /\ \E v \in Block : gen = GenNew(DeltaNew(v))
    /\ ev = EvNew
    /\ st = StNew
    /\ gfut = <<>> /\ efut = <<>>
    /\ net = NetNew
    /\ pcG = At("setup", "assign") /\ pcE = At("setup", "assign")
    /\ IdleKeys /\ IdleCorr

\* gen.decode and ev.decode on every slice; then both tasks call commit
CmDecode ==
    /\ st.pc = "assign" /\ st.slices # <<>>
    /\ pcG.call = "setup" /\ pcE.call = "setup"
    /\ gen' = GenDecodeAll(gen, st.slices, 1)
    /\ ev' = EvDecodeAll(ev, st.slices, 1)
    /\ gfut' = [k \in 1..Len(st.slices) |-> FutPending]
    /\ efut' = [k \in 1..Len(st.slices) |-> FutPending]
    /\ st' = [st EXCEPT !.pc = "commit"]
    /\ pcG' = At("commit", "assign") /\ pcE' = At("commit", "assign")
    /\ UNCHANGED <<keysVars, corr, net>>

CmNext ==
    \/ StAssignPublic
    \/ StAssignGenPrivate
    \/ StAssignEvPrivate
    \/ CmDecode
    \/ GenCommitAssign
    \/ GenCommitCot
    \/ GenCommitKeyBits
    \/ GenCommitVerify
    \/ EvCommitAssign
    \/ EvCommitReceive
    \/ EvCommitKeyBits
    \/ EvCommitDecode

SpecCommit == CmInit /\ [][CmNext]_vars

\* C3: when both stores assigned and decoded the same slices with matching
\* visibility and run commit concurrently, neither commit fails or waits for
\* a message that is never sent, every message arrives where a message of its
\* type is expected and none is left over, and once both have returned every
\* decode future on both sides is resolved with the assigned value.
C3_CommitHandshake ==
    /\ pcG.call # "failed" /\ pcE.call # "failed"
    /\ ~GenStuck /\ ~EvStuck
    /\ (pcG.call = "done" /\ pcE.call = "done") =>
           /\ net.g2e = <<>> /\ net.e2g = <<>>
           /\ \A k \in 1..Len(st.slices) :
                  /\ gfut[k] = FutReady(st.vals[k])
                  /\ efut[k] = FutReady(st.vals[k])

-----------------------------------------------------------------------------
(* Garbling of a call.  The circuit of a call is the conjunction of all its *)
(* input bits, with one output bit.  The encrypted gates are modelled by    *)
(* what they let the evaluator compute: a table from the labels of the      *)
(* inputs to the label of the output.                                       *)

\* (call, output) as pushed on a call_stack
Call(inputs, output) == [inputs |-> inputs, output |-> output]

Circ(bits) == <<\A i \in 1..Len(bits) : bits[i]>>

\* Generator::generate_batched : the gates and the output keys
Garble(delta, keys, kz) ==
    [gates |->
        [m \in {l \in BlockSeqs(Len(keys)) :
                   \A i \in 1..Len(keys) : l[i] \in {keys[i], BXor(keys[i], delta)}}
            |-> BXor(kz, IF Circ([i \in 1..Len(keys) |-> m[i] # keys[i]])[1]
                         THEN delta ELSE BlockZERO)],
     outputs |-> <<kz>>]

\* Evaluator::evaluate_batched ... finish
Evaluate(gates, macs) ==
    IF macs \in DOMAIN gates THEN [err |-> "Ok", outputs |-> <<gates[macs]>>]
    ELSE [err |-> "Core", outputs |-> <<>>]

RECURSIVE Flatten(_)
Flatten(seqs) == IF seqs = <<>> THEN <<>> ELSE Head(seqs) \o Flatten(Tail(seqs))

-----------------------------------------------------------------------------
(* Generator and Evaluator of the semi-honest protocol.  gen and ev hold    *)
(* the store's fields together with call_stack (and preprocessed) of the    *)
(* enclosing Generator / Evaluator.                                         *)

\* Generator::call_raw
GenCallRaw(g, inputs) ==
    [GenAllocOutput(g, 1) EXCEPT
        !.call_stack = Append(@, Call(inputs, AllocSlice(g.data_store, 1)))]

\* Evaluator::call_raw
EvCallRaw(e, inputs) ==
    [EvAlloc(e, 1) EXCEPT
        !.call_stack = Append(@, Call(inputs, AllocSlice(e.data_store, 1)))]

GenInputKeys(g, call) ==
    Flatten([i \in 1..Len(call.inputs) |-> KsTryGet(g.key_store, call.inputs[i]).val])

EvInputMacs(e, call) ==
    Flatten([i \in 1..Len(call.inputs) |-> MsTryGet(e.mac_store, call.inputs[i]).val])

\* generate(ctx, circ, delta, input_macs) and set_output for every ready call
RECURSIVE GenRunCalls(_, _, _, _)
GenRunCalls(g, ready, kzs, sent) ==
    IF ready = <<>> THEN [err |-> "Ok", gen |-> g, sent |-> sent]
    ELSE LET call == Head(ready)
             gc == Garble(g.key_store.delta, GenInputKeys(g, call), Head(kzs))
             r == GenSetOutput(g, call.output, gc.outputs)
         IN  IF r.err # "Ok" THEN [err |-> "Panic", gen |-> g, sent |-> sent]
             ELSE GenRunCalls(r.gen, Tail(ready), Tail(kzs),
                              Append(sent, Msg("EncryptedGateBatch", gc.gates)))

\* Generator::preprocess : calls whose input keys are set
GenPreprocessReady(g, call) ==
    \A i \in 1..Len(call.inputs) : KsIsSet(g.key_store, call.inputs[i])

\* Generator::execute : calls whose input keys are set and assigned
GenExecuteReady(g, call) ==
    \A i \in 1..Len(call.inputs) :
        /\ KsIsSet(g.key_store, call.inputs[i])
        /\ KsIsUsed(g.key_store, call.inputs[i])

\* One turn of the loop of Generator::preprocess / Generator::execute:
\* filter_drain the ready calls, generate them, set their outputs
GenTurn(g, fn, kzs) ==
    LET Ready(c) == IF fn = "preprocess" THEN GenPreprocessReady(g, c)
                    ELSE GenExecuteReady(g, c)
        ready == SelectSeq(g.call_stack, Ready)
        rest == SelectSeq(g.call_stack, LAMBDA c : ~Ready(c))
    IN  GenRunCalls([g EXCEPT !.call_stack = rest], ready, kzs, <<>>)

\* Evaluator::execute : preprocessed entries / calls whose input MACs are set
EvReady(e, call) ==
    \A i \in 1..Len(call.inputs) : MsIsSet(e.mac_store, call.inputs[i])

\* evaluate the ready calls with their gates and set_output each
RECURSIVE EvRunCalls(_, _, _)
EvRunCalls(e, ready, gcs) ==
    IF ready = <<>> THEN [err |-> "Ok", ev |-> e]
    ELSE LET call == Head(ready)
             o == Evaluate(Head(gcs), EvInputMacs(e, call))
             r == EvTrySetMacs(e, call.output, o.outputs)
         IN  IF o.err # "Ok" THEN [err |-> "Panic", ev |-> e]
             ELSE IF r.err # "Ok" THEN [err |-> r.err, ev |-> e]
             ELSE EvRunCalls(r.ev, Tail(ready), Tail(gcs))

\* The gates of the first n messages, or none if one is not a gate batch
GatesOf(msgs, n) ==
    IF \A i \in 1..n : msgs[i].type = "EncryptedGateBatch"
    THEN [err |-> "Ok", gcs |-> [i \in 1..n |-> msgs[i].body]]
    ELSE [err |-> "Io", gcs |-> <<>>]

\* Generator::preprocess
GenPreprocess ==
    \E kzs \in PrgSeqs(Len(gen.call_stack)) :
        LET r == GenTurn(gen, "preprocess", kzs)
        IN  /\ pcG.call = "preprocess"
            /\ gen' = r.gen
            /\ net' = [net EXCEPT !.g2e = @ \o r.sent]
            /\ pcG' = IF r.err = "Ok" THEN At("assign", "start")
                      ELSE Failed(pcG, r.err)
            /\ UNCHANGED <<keysVars, corr, ev, st, gfut, efut, pcE>>

\* Evaluator::preprocess : receive_garbled_circuit for every call
EvPreprocess ==
    LET n == Len(ev.call_stack)
        g == GatesOf(net.g2e, n)
    IN  /\ pcE.call = "preprocess"
        /\ Len(net.g2e) >= n
        /\ net' = [net EXCEPT !.g2e = SubSeq(@, n + 1, Len(@))]
        /\ IF g.err # "Ok"
           THEN /\ pcE' = Failed(pcE, "Panic")
                /\ UNCHANGED ev
           ELSE /\ ev' = [ev EXCEPT
                       !.call_stack = <<>>,
                       !.preprocessed =
                           [i \in 1..n |-> [call |-> ev.call_stack[i], gc |-> g.gcs[i]]]]
                /\ pcE' = At("assign", "start")
        /\ UNCHANGED <<keysVars, corr, gen, st, gfut, efut, pcG>>

\* Generator::execute
GenExecute ==
    \E kzs \in PrgSeqs(Len(gen.call_stack)) :
        LET r == GenTurn(gen, "execute", kzs)
        IN  /\ pcG.call = "execute"
            /\ gen' = r.gen
            /\ net' = [net EXCEPT !.g2e = @ \o r.sent]
            /\ pcG' = IF r.err = "Ok" THEN At("commit2", "assign")
                      ELSE Failed(pcG, r.err)
            /\ UNCHANGED <<keysVars, corr, ev, st, gfut, efut, pcE>>

\* Evaluator::execute : the preprocessed calls, then the calls of call_stack
\* with the gates streamed from the generator
EvExecute ==
    LET pre == SelectSeq(ev.preprocessed, LAMBDA p : EvReady(ev, p.call))
        e0 == [ev EXCEPT !.preprocessed =
                   SelectSeq(ev.preprocessed, LAMBDA p : ~EvReady(ev, p.call))]
        r1 == EvRunCalls(e0, [i \in 1..Len(pre) |-> pre[i].call],
                         [i \in 1..Len(pre) |-> pre[i].gc])
        ready == SelectSeq(r1.ev.call_stack, LAMBDA c : EvReady(r1.ev, c))
        e1 == [r1.ev EXCEPT !.call_stack =
                   SelectSeq(r1.ev.call_stack, LAMBDA c : ~EvReady(r1.ev, c))]
        n == Len(ready)
        g == GatesOf(net.g2e, n)
        r2 == EvRunCalls(e1, ready, g.gcs)
    IN  /\ pcE.call = "execute"
        /\ r1.err = "Ok" => Len(net.g2e) >= n
        /\ IF r1.err # "Ok"
           THEN /\ ev' = r1.ev
                /\ pcE' = Failed(pcE, r1.err)
                /\ UNCHANGED net
           ELSE /\ net' = [net EXCEPT !.g2e = SubSeq(@, n + 1, Len(@))]
                /\ IF g.err # "Ok"
                   THEN /\ ev' = e1
                        /\ pcE' = Failed(pcE, "Panic")
                   ELSE /\ ev' = r2.ev
                        /\ pcE' = IF r2.err = "Ok" THEN At("commit2", "assign")
                                  ELSE Failed(pcE, r2.err)
        /\ UNCHANGED <<keysVars, corr, gen, st, gfut, efut, pcG>>

\* The evaluator waits in execute for gates the generator will never send
EvStuckExecute ==
    /\ pcE.call = "execute" /\ Ended(pcG)
    /\ Len(net.g2e) < Len(SelectSeq(ev.call_stack, LAMBDA c : EvReady(ev, c)))

-----------------------------------------------------------------------------
(* SpecSync: test_semihonest and test_semihonest_preprocess.  Both parties  *)
(* allocate key_ref and msg_ref, call the circuit on them and decode its    *)
(* output; both or neither preprocess; the generator assigns key_ref        *)
(* Private and msg_ref Blind, the evaluator the converse; both call sync.   *)

SyInit ==
    /\ \E v \in Block : gen = GenNew(DeltaNew(v))
    /\ ev = EvNew
    /\ st = StNew
    /\ gfut = <<>> /\ efut = <<>>
    /\ net = NetNew
    /\ pcG = At("alloc", "start") /\ pcE = At("alloc", "start")
    /\ IdleKeys /\ IdleCorr

\* alloc_raw; alloc_raw; call_raw; decode_raw on both sides
SyAlloc ==
    \E len \in SliceLens : \E k1 \in UniformKeys(len) : \E k2 \in UniformKeys(1) :
    \E pre \in BOOLEAN :
        LET key_ref == SliceNew(0, len)
            msg_ref == SliceNew(len, 1)
            out == SliceNew(len + 1, 1)
            g == GenCallRaw(GenAlloc(GenAlloc(gen, k1), k2), <<key_ref, msg_ref>>)
            e == EvCallRaw(EvAlloc(EvAlloc(ev, len), 1), <<key_ref, msg_ref>>)
        IN  /\ pcG.call = "alloc" /\ pcE.call = "alloc"
            /\ gen' = GenDecode(g, out, 1)
            /\ ev' = EvDecode(e, out, 1)
            /\ gfut' = <<FutPending>> /\ efut' = <<FutPending>>
            /\ st' = [st EXCEPT !.slices = <<key_ref, msg_ref, out>>,
                                !.pre = pre]
            /\ pcG' = At(IF pre THEN "preprocess" ELSE "assign", "start")
            /\ pcE' = At(IF pre THEN "preprocess" ELSE "assign", "start")
            /\ UNCHANGED <<keysVars, corr, net>>

\* assign_private_raw / assign_blind_raw on both sides; then both call sync
SyAssign ==
    /\ pcG.call = "assign" /\ pcE.call = "assign"
    /\ \E key \in BitSeqs(st.slices[1].size) : \E msg \in BitSeqs(1) :
        LET g == GenAssignPrivate(gen, st.slices[1], key)
            e == EvAssignPrivate(EvAssignBlind(ev, st.slices[1]), st.slices[2], msg)
        IN  /\ g.err = "Ok" /\ e.err = "Ok"
            /\ gen' = GenAssignBlind(g.gen, st.slices[2])
            /\ ev' = e.ev
            /\ st' = [st EXCEPT !.kinds = <<"GenPrivate", "EvPrivate", "Output">>,
                                !.vals = <<key, msg, Circ(key \o msg)>>,
                                !.pc = "sync"]
            /\ pcG' = At("commit1", "assign") /\ pcE' = At("commit1", "assign")
            /\ UNCHANGED <<keysVars, corr, gfut, efut, net>>

SyNext ==
    \/ SyAlloc
    \/ GenPreprocess
    \/ EvPreprocess
    \/ SyAssign
    \/ GenCommitAssign
    \/ GenCommitCot
    \/ GenCommitKeyBits
    \/ GenCommitVerify
    \/ GenExecute
    \/ EvCommitAssign
    \/ EvCommitReceive
    \/ EvCommitKeyBits
    \/ EvCommitDecode
    \/ EvExecute

SpecSync == SyInit /\ [][SyNext]_vars

\* C4: with or without preprocess on both sides, neither sync fails or waits
\* for a message that is never sent, a party whose sync has returned holds
\* the resolved future of the output, and the two resolved values are equal.
C4_SyncLiveness ==
    /\ pcG.call # "failed" /\ pcE.call # "failed"
    /\ ~GenStuck /\ ~EvStuck /\ ~EvStuckExecute
    /\ pcG.call = "done" => gfut[1].done
    /\ pcE.call = "done" => efut[1].done
    /\ (pcG.call = "done" /\ pcE.call = "done") => gfut[1].val = efut[1].val

-----------------------------------------------------------------------------
(* Assignment rounds over slices that are assigned in any order: SpecOrder *)

MaxAssigns == 2

RECURSIVE SumSeq(_)
SumSeq(l) == IF l = <<>> THEN 0 ELSE Head(l) + SumSeq(Tail(l))

\* The ways the callers may cut the arena into slices
Layouts ==
    {l \in UNION {[1..n -> SliceLens] : n \in 1..NSlices} : SumSeq(l) <= MaxArena}

SlicesAt(l) == [k \in 1..Len(l) |-> SliceNew(SumSeq(SubSeq(l, 1, k - 1)), l[k])]

\* gen.alloc for every slice of the layout
RECURSIVE GenAllocAll(_, _, _)
GenAllocAll(g, l, keys) ==
    IF l = <<>> THEN g
    ELSE GenAllocAll(GenAlloc(g, SubSeq(keys, 1, Head(l))), Tail(l),
                     SubSeq(keys, Head(l) + 1, Len(keys)))

\* ev.alloc for every slice of the layout
RECURSIVE EvAllocAll(_, _)
EvAllocAll(e, l) ==
    IF l = <<>> THEN e ELSE EvAllocAll(EvAlloc(e, Head(l)), Tail(l))

\* Both parties allocate the same slices
OrAlloc ==
    /\ st.pc = "assign" /\ st.slices = <<>>
    /\ \E l \in Layouts : \E keys \in PrgSeqs(SumSeq(l)) :
        /\ gen' = GenAllocAll(gen, l, keys)
        /\ ev' = EvAllocAll(ev, l)
        /\ st' = [st EXCEPT !.slices = SlicesAt(l)]
    /\ UNCHANGED <<keysVars, corr, gfut, efut, netVars>>

\* The generator's half of an assignment of the given kind
GenAssignKind(g, slice, kind, x) ==
    CASE kind = "Public"     -> GenAssignPublic(g, slice, x)
      [] kind = "GenPrivate" -> GenAssignPrivate(g, slice, x)
      [] kind = "EvPrivate"  -> [err |-> "Ok", gen |-> GenAssignBlind(g, slice)]

\* The evaluator's half of an assignment of the given kind
EvAssignKind(e, slice, kind, x) ==
    CASE kind = "Public"     -> EvAssignPublic(e, slice, x)
      [] kind = "GenPrivate" -> [err |-> "Ok", ev |-> EvAssignBlind(e, slice)]
      [] kind = "EvPrivate"  -> EvAssignPrivate(e, slice, x)

\* One allocated slice is assigned on both sides; the slices are taken in any
\* order and a slice may be taken again.
OrAssign ==
    /\ st.pc = "assign" /\ st.slices # <<>>
    /\ Len(st.kinds) < MaxAssigns
    /\ \E k \in 1..Len(st.slices) : \E kind \in {"Public", "GenPrivate", "EvPrivate"} :
       \E x \in UniformBits(st.slices[k].size) :
        LET g == GenAssignKind(gen, st.slices[k], kind, x)
            e == EvAssignKind(ev, st.slices[k], kind, x)
        IN  /\ gen' = g.gen /\ ev' = e.ev
            /\ st' = [st EXCEPT !.kinds = Append(st.kinds, kind),
                                !.vals = Append(st.vals, x)]
            /\ last' = [op |-> "assign", slice |-> st.slices[k], kind |-> kind,
                        gen |-> g.err, ev |-> e.err,
                        gset |-> StoreIsSet(gen.data_store, st.slices[k]),
                        eset |-> StoreIsSet(ev.data_store, st.slices[k])]
    /\ UNCHANGED <<ks, ms, released, corr, gfut, efut, netVars>>

\* The payload names index sets other than those the evaluator buffered:
\* one index is added to or removed from idx_direct before receive runs.
OrReceiveOther ==
    LET a == EvExecuteAssign(ev)
        macs == CotCorrelated(gen.key_store.delta, st.keys, a.choices)
    IN  /\ st.pc = "receive" /\ st.err.execute_assign = "Ok"
        /\ \E j \in 0..(StoreLen(ev.data_store) - 1) :
            LET idx == IF j \in st.payload.idx_direct
                       THEN st.payload.idx_direct \ {j}
                       ELSE st.payload.idx_direct \cup {j}
                r == EvReceive(a.ev, a.direct, a.oblivious,
                               [st.payload EXCEPT !.idx_direct = idx], macs)
            IN  /\ ev' = r.ev
                /\ st' = [st EXCEPT !.pc = "decode", !.err.receive = r.err,
                                    !.tampered = TRUE, !.payload.idx_direct = idx]
        /\ UNCHANGED <<keysVars, corr, gen, gfut, efut, netVars>>

OrNext ==
    \/ OrAlloc
    \/ OrAssign
    \/ StExecuteAssign
    \/ StReceive
    \/ OrReceiveOther

SpecOrder == StInit /\ [][OrNext]_vars

\* The generator's key of index j, and the MAC of the bit a store holds there
GenKeyAt(j) == gen.key_store.keys.data[j + 1]
GenMacAt(j, store) == MacOf(GenKeyAt(j), store.data[j + 1], gen.key_store.delta)

\* C12: after a successful execute_assign the payload holds one MAC per index
\* of idx_direct, the i-th MAC is the MAC of the i-th index of idx_direct in
\* ascending order and the i-th key handed to the oblivious transfer is the key
\* of the i-th index of idx_oblivious in ascending order, whatever the order the
\* assignments were buffered in; after a successful receive of that payload
\* every MAC the evaluator holds at an assigned index j is K_j xor x_j * Delta.
C12_AssignPayloadOrder ==
    LET p == st.payload
        d == Ascending(p.idx_direct)
        o == Ascending(p.idx_oblivious)
        sent == /\ st.pc \in {"receive", "decode"}
                /\ st.err.execute_assign = "Ok" /\ ~st.tampered
    IN  /\ sent =>
            /\ Len(p.macs) = Cardinality(p.idx_direct)
            /\ \A i \in 1..Len(d) : p.macs[i] = GenMacAt(d[i], gen.data_store)
            /\ Len(st.keys) = Len(o)
            /\ \A i \in 1..Len(o) : st.keys[i] = GenKeyAt(o[i])
        /\ (sent /\ st.pc = "decode" /\ st.err.receive = "Ok") =>
            /\ \A j \in p.idx_direct :
                   ev.mac_store.macs.data[j + 1] = GenMacAt(j, gen.data_store)
            /\ \A j \in p.idx_oblivious :
                   ev.mac_store.macs.data[j + 1] = GenMacAt(j, ev.data_store)

\* A slice is named by two ops of an assign buffer
TwiceBuffered(buf) ==
    \E i, j \in 1..Len(buf) : i < j /\ buf[i].slice = buf[j].slice

\* C15: a second assign_public / assign_private on a slice returns AlreadySet
\* on the store that already holds its data, and a slice that is buffered twice
\* for key / MAC assignment makes the round fail with AlreadyAssigned: on the
\* GeneratorStore in execute_assign, and on the EvaluatorStore when receive
\* applies the MACs of the round.
C15_AssignIdempotent ==
    [][/\ (Len(st'.kinds) > Len(st.kinds)) =>
            /\ (last'.gset /\ last'.kind \in {"Public", "GenPrivate"})
                   => last'.gen = "AlreadySet"
            /\ (last'.eset /\ last'.kind \in {"Public", "EvPrivate"})
                   => last'.ev = "AlreadySet"
       /\ (st.pc = "assign" /\ st'.pc = "receive" /\ TwiceBuffered(gen.buffer_assign))
            => st'.err.execute_assign = "AlreadyAssigned"
       /\ (/\ st.pc = "receive" /\ st'.pc = "decode" /\ ~st'.tampered
           /\ st.err.execute_assign = "Ok" /\ TwiceBuffered(ev.buffer_assign))
            => st'.err.receive = "AlreadyAssigned"]_vars

-----------------------------------------------------------------------------
(* Decode rounds over slices that are decoded in any order: SpecDecode *)

\* assign of the same kind on every slice, in allocation order
RECURSIVE GenAssignAll(_, _, _, _)
GenAssignAll(g, slices, kind, b) ==
    IF slices = <<>> THEN g
    ELSE GenAssignAll(GenAssignKind(g, Head(slices), kind,
                                    [i \in 1..Head(slices).size |-> b]).gen,
                      Tail(slices), kind, b)

RECURSIVE EvAssignAll(_, _, _, _)
EvAssignAll(e, slices, kind, b) ==
    IF slices = <<>> THEN e
    ELSE EvAssignAll(EvAssignKind(e, Head(slices), kind,
                                  [i \in 1..Head(slices).size |-> b]).ev,
                     Tail(slices), kind, b)

\* Both parties assign every allocated slice
DcAssign ==
    /\ st.pc = "assign" /\ st.slices # <<>> /\ st.kinds = <<>>
    /\ \E kind \in {"Public", "GenPrivate", "EvPrivate"} : \E b \in BOOLEAN :
        /\ gen' = GenAssignAll(gen, st.slices, kind, b)
        /\ ev' = EvAssignAll(ev, st.slices, kind, b)
        /\ st' = [st EXCEPT !.kinds = [k \in 1..Len(st.slices) |-> kind],
                            !.vals = [k \in 1..Len(st.slices) |->
                                         [i \in 1..st.slices[k].size |-> b]]]
    /\ UNCHANGED <<keysVars, corr, gfut, efut, netVars>>

\* The slices of the arena a caller may ask to decode
ArenaSlices ==
    {SliceNew(p, n) : p \in 0..(MaxArena - 1), n \in SliceLens}

\* The orders in which one or two decodes may be buffered
DecodeSeqs ==
    {d \in UNION {[1..n -> ArenaSlices] : n \in 1..2} :
        \A i \in 1..Len(d) : StoreValid(gen.data_store, d[i])}

\* After a round that ended well: gen.decode for the slices of dg, ev.decode
\* for the slices of de; the evaluator decodes what the generator decodes, or
\* only the first of it
DcDecode ==
    /\ st.pc = "decode" /\ st.err.receive = "Ok"
    /\ \E dg \in DecodeSeqs : \E de \in {dg, <<dg[1]>>} :
        /\ gen' = GenDecodeAll(gen, dg, 1)
        /\ ev' = EvDecodeAll(ev, de, 1)
        /\ gfut' = [k \in 1..Len(dg) |-> FutPending]
        /\ efut' = [k \in 1..Len(de) |-> FutPending]
    /\ st' = [st EXCEPT !.pc = "send_key_bits"]
    /\ UNCHANGED <<keysVars, corr, netVars>>

DcNext ==
    \/ OrAlloc
    \/ DcAssign
    \/ StExecuteAssign
    \/ StReceive
    \/ OrReceiveOther
    \/ DcDecode
    \/ StSendKeyBits
    \/ StReceiveKeyBits
    \/ StEvExecuteDecode
    \/ StVerifyData

SpecDecode == StInit /\ [][DcNext]_vars

\* C13: every DecodePayload of send_key_bits holds one key bit per index of
\* idx, and its i-th bit is the pointer bit of the generator's key at the i-th
\* index of idx in ascending order, whatever the order of the buffered decodes
\* and also when two of them cover the same or overlapping slices; after
\* receive_key_bits the evaluator holds at every index j of idx the pointer
\* bit of the generator's key at index j.
C13_DecodePayloadOrder ==
    LET p == st.key_bits
        a == Ascending(p.idx)
        sent == /\ st.pc \in {"receive_key_bits", "ev_execute_decode",
                              "verify_data", "gen_execute_decode"}
                /\ st.err.send_key_bits = "Ok"
    IN  /\ sent =>
            /\ Len(p.key_bits) = Cardinality(p.idx)
            /\ \A i \in 1..Len(a) : p.key_bits[i] = Lsb(GenKeyAt(a[i]))
        /\ (sent /\ st.err.receive_key_bits = "Ok") =>
            \A j \in p.idx : ev.key_bit_store.data[j + 1] = Lsb(GenKeyAt(j))

\* C14: a range set that differs from what the receiving store expects is
\* fatal and leaves no partial state: receive with a payload whose idx_direct
\* or idx_oblivious differs from the buffered assignments stores no MAC,
\* receive_key_bits with an idx that is not the set of the evaluator's pending
\* decode slices stores no key bit, verify_data with an idx that is not the
\* set of the generator's pending decode slices stores no data bit, and none
\* of these calls reports success.
C14_MismatchIsFatal ==
    [][/\ (/\ st.pc = "receive" /\ st'.pc = "decode"
           /\ \/ st'.payload.idx_direct
                    # ToRangeSet(EvExecuteAssign(ev).direct)
              \/ st'.payload.idx_oblivious
                    # ToRangeSet(EvExecuteAssign(ev).oblivious))
            => /\ ev'.mac_store = ev.mac_store
               /\ st'.err.receive # "Ok"
       /\ (/\ st.pc = "receive_key_bits" /\ st'.pc = "ev_execute_decode"
           /\ st.key_bits.idx # ToRangeSet(SlicesOf(ev.buffer_decode)))
            => /\ ev'.key_bit_store = ev.key_bit_store
               /\ st'.err.receive_key_bits # "Ok"
       /\ (/\ st.pc = "verify_data" /\ st'.pc = "gen_execute_decode"
           /\ st.mac.idx # ToRangeSet(SlicesOf(gen.buffer_decode)))
            => /\ gen'.data_store = gen.data_store
               /\ st'.err.verify_data # "Ok"]_vars

-----------------------------------------------------------------------------
(* QuickSilver, the streaming engine of mpz-zk-core (prover.rs, verifier.rs). *)
(* In the zero-knowledge protocol the holder of the keys and of Delta is the  *)
(* Verifier and the holder of the MACs is the Prover: gen holds the           *)
(* Verifier, ev the Prover, st the driver that runs them (lib.rs test_zk,     *)
(* benches/zk.rs).  A wire's truth value is the pointer bit of its MAC.       *)
(* Blocks are elements of GF(4) here, GF(2^128) in the program.               *)

\* Block::gfmul : carry-less product modulo x^2 + x + 1
GfMul(a, b) ==
    LET a0 == a % 2  a1 == a \div 2
        b0 == b % 2  b1 == b \div 2
    IN  (((a0 * b0) + (a1 * b1)) % 2)
        + (2 * (((a0 * b1) + (a1 * b0) + (a1 * b1)) % 2))

\* BitVec<u8>::as_raw_slice : the bits packed eight to a byte, first bit lowest
RECURSIVE ByteOf(_, _, _)
ByteOf(bits, i, n) == IF i > n THEN 0 ELSE B2N(bits[i]) + (2 * ByteOf(bits, i + 1, n))

RECURSIVE RawSlice(_)
RawSlice(bits) ==
    IF bits = <<>> THEN <<>>
    ELSE LET n == IF Len(bits) < 8 THEN Len(bits) ELSE 8
         IN  <<ByteOf(bits, 1, n)>> \o RawSlice(SubSeq(bits, n + 1, Len(bits)))

\* Block::try_from(&hasher.finalize().as_bytes()[..16]) : the block a
\* transcript hashes to; it depends on every byte and on the length
RECURSIVE HashSum(_, _)
HashSum(bytes, i) ==
    IF i > Len(bytes) THEN 0 ELSE (i * (bytes[i] + 1)) + HashSum(bytes, i + 1)

HashBlock(bytes) == 1 + (HashSum(bytes, 1) % 3)

\* Gates and circuits (mpz_circuits::Gate, Circuit)
GXor(x, y, z) == [op |-> "Xor", x |-> x, y |-> y, z |-> z]
GAnd(x, y, z) == [op |-> "And", x |-> x, y |-> y, z |-> z]
GInv(x, z) == [op |-> "Inv", x |-> x, y |-> x, z |-> z]

Circuit(n, gates, out) == [input_len |-> n, gates |-> gates, outputs |-> <<out>>]

AndCount(circ) == Cardinality({i \in 1..Len(circ.gates) : circ.gates[i].op = "And"})

FeedCount(circ) == circ.input_len + Len(circ.gates)

\* The circuits that are run: inputs are nodes 0 and 1
Circuits ==
    { Circuit(2, <<GAnd(0, 1, 2)>>, 2),
      Circuit(2, <<GXor(0, 1, 2), GAnd(2, 1, 3)>>, 3),
      Circuit(2, <<GAnd(0, 1, 2), GXor(2, 0, 3), GAnd(3, 1, 4)>>, 4),
      Circuit(2, <<GInv(0, 2), GAnd(2, 1, 3)>>, 3),
      Circuit(2, <<GAnd(0, 1, 2), GInv(2, 3)>>, 3),
      Circuit(2, <<GXor(0, 1, 2), GInv(2, 3)>>, 3) }

\* buffer.resize(feed_count, Default) when the circuit needs more, then the inputs
LoadInputs(buffer, circ, inputs) ==
    LET n == IF FeedCount(circ) > Len(buffer) THEN FeedCount(circ) ELSE Len(buffer)
    IN  [i \in 1..n |-> IF i <= circ.input_len THEN inputs[i]
                        ELSE IF i <= Len(buffer) THEN buffer[i] ELSE BlockZERO]

CheckNew == [transcript |-> <<>>, terms |-> <<>>, adjust |-> <<>>]

\* a push that puts the newest triple first
CheckPushFront(c, x, y, z, adjust) ==
    [c EXCEPT !.terms = <<<<x, y, z>>>> \o @, !.adjust = <<adjust>> \o @]

\* Check::push
CheckPush(c, x, y, z, adjust) ==
    [c EXCEPT !.terms = Append(@, <<x, y, z>>), !.adjust = Append(@, adjust)]

\* chi, then chi = chi.gfmul(chi) for every further gate
RECURSIVE Chis(_, _)
Chis(chi, n) == IF n = 0 THEN <<>> ELSE <<chi>> \o Chis(GfMul(chi, chi), n - 1)

RECURSIVE XorAll(_)
XorAll(blocks) == IF blocks = <<>> THEN BlockZERO
                  ELSE BXor(Head(blocks), XorAll(Tail(blocks)))

IterNew(circ) == [circ |-> circ, gate |-> 1, counter |-> 0, complete |-> FALSE]

\* has_gates / wants_gates
HasGates(it) == it.counter # AndCount(it.circ)

\* Prover::default
ProverNew == [buffer |-> <<>>, check |-> CheckNew, iter |-> IterNew(Circuit(0, <<>>, 0)),
              gate_masks |-> <<>>, gate_macs |-> <<>>]

\* Prover::execute
ProverExecute(p, circ, input_macs, gate_masks, gate_macs) ==
    IF \/ Len(input_macs) # circ.input_len
       \/ Len(gate_masks) # AndCount(circ)
       \/ Len(gate_macs) # AndCount(circ)
    THEN [err |-> "Panic", prover |-> p]
    ELSE [err |-> "Ok",
          prover |-> [p EXCEPT !.buffer = LoadInputs(p.buffer, circ, input_macs),
                               !.iter = IterNew(circ),
                               !.gate_masks = gate_masks,
                               !.gate_macs = gate_macs]]

\* ProverIter::next : the gates up to and including the next AND gate; after
\* the last AND gate the remaining free gates are computed as well
RECURSIVE ProverIterNext(_)
ProverIterNext(p) ==
    LET it == p.iter
        g == it.circ.gates[it.gate]
        mac_x == p.buffer[g.x + 1]
        mac_y == p.buffer[g.y + 1]
        w_z == Lsb(mac_x) /\ Lsb(mac_y)
        mac_z == SetLsb(p.gate_macs[it.counter + 1], w_z)
        adjust == (p.gate_masks[it.counter + 1] # w_z)
        step == [p EXCEPT !.iter.gate = it.gate + 1]
        pAnd == [step EXCEPT !.buffer[g.z + 1] = mac_z,
                             !.check = CheckPush(p.check, mac_x, mac_y, mac_z, adjust),
                             !.iter.counter = it.counter + 1]
    IN  IF it.gate > Len(it.circ.gates) THEN [prover |-> p, item |-> "None"]
        ELSE CASE g.op = "Xor" ->
                    ProverIterNext([step EXCEPT !.buffer[g.z + 1] = BXor(mac_x, mac_y)])
               [] g.op = "Inv" ->
                    ProverIterNext([step EXCEPT !.buffer[g.z + 1] = XorLsb(mac_x, TRUE)])
               [] g.op = "And" ->
                    IF HasGates(pAnd.iter) THEN [prover |-> pAnd, item |-> adjust]
                    ELSE [prover |-> [ProverIterNext(pAnd).prover
                                         EXCEPT !.iter.complete = TRUE],
                          item |-> adjust]

\* The blocks of the output nodes
OutputsOf(buffer, circ) == [i \in 1..Len(circ.outputs) |-> buffer[circ.outputs[i] + 1]]

\* ProverIter::finish
ProverIterFinish(p) ==
    LET q == IF p.iter.complete THEN p ELSE ProverIterNext(p).prover
    IN  IF HasGates(p.iter) THEN [err |-> "Panic", prover |-> p, outputs |-> <<>>]
        ELSE [err |-> "Ok", prover |-> q, outputs |-> OutputsOf(q.buffer, q.iter.circ)]

\* compute_terms of the prover's Check::execute
ProverTerms(t, chi) ==
    LET x == t[1]  y == t[2]  z == t[3]
        a_10 == IF Lsb(x) THEN y ELSE BlockZERO
        a_11 == IF Lsb(y) THEN x ELSE BlockZERO
    IN  [u |-> GfMul(GfMul(x, y), chi),
         v |-> GfMul(BXor(BXor(a_10, a_11), z), chi)]

\* Prover::check, Check::execute : (U, V) and the prover after it
ProverCheck(p, mask_u, mask_v) ==
    LET c == p.check
        t1 == c.transcript \o RawSlice(c.adjust)
        chis == Chis(HashBlock(t1), Len(c.terms))
        u == BXor(XorAll([i \in 1..Len(c.terms) |-> ProverTerms(c.terms[i], chis[i]).u]),
                  mask_u)
        v == BXor(XorAll([i \in 1..Len(c.terms) |-> ProverTerms(c.terms[i], chis[i]).v]),
                  mask_v)
    IN  [u |-> u, v |-> v,
         prover |-> [p EXCEPT !.check = [transcript |-> t1 \o ToBytes(u) \o ToBytes(v),
                                         terms |-> <<>>, adjust |-> <<>>]]]

\* Verifier::new
VerifierNew(delta) ==
    [buffer |-> <<>>, delta |-> delta, check |-> CheckNew,
     iter |-> IterNew(Circuit(0, <<>>, 0)), gate_keys |-> <<>>]

\* Verifier::execute
VerifierExecute(v, circ, input_keys, gate_keys) ==
    IF Len(input_keys) # circ.input_len \/ Len(gate_keys) # AndCount(circ)
    THEN [err |-> "Panic", verifier |-> v]
    ELSE [err |-> "Ok",
          verifier |-> [v EXCEPT !.buffer = LoadInputs(v.buffer, circ, input_keys),
                                 !.iter = IterNew(circ),
                                 !.gate_keys = gate_keys]]

\* VerifierConsumer::next
RECURSIVE VerifierNext(_, _)
VerifierNext(v, adjust) ==
    LET it == v.iter
        g == it.circ.gates[it.gate]
        key_x == v.buffer[g.x + 1]
        key_y == v.buffer[g.y + 1]
        key_z == SetLsb(BXor(v.gate_keys[it.counter + 1],
                             IF adjust THEN v.delta ELSE BlockZERO), FALSE)
        step == [v EXCEPT !.iter.gate = it.gate + 1]
        vAnd == [step EXCEPT !.buffer[g.z + 1] = key_z,
                             !.check = CheckPush(v.check, key_x, key_y, key_z, adjust),
                             !.iter.counter = it.counter + 1]
    IN  IF it.gate > Len(it.circ.gates) THEN [v EXCEPT !.iter.complete = TRUE]
        ELSE CASE g.op = "Xor" ->
                    VerifierNext([step EXCEPT !.buffer[g.z + 1] = BXor(key_x, key_y)],
                                 adjust)
               [] g.op = "Inv" ->
                    VerifierNext([step EXCEPT !.buffer[g.z + 1] = key_x], adjust)
               [] g.op = "And" ->
                    IF HasGates(vAnd.iter) THEN vAnd ELSE VerifierNext(vAnd, adjust)

\* VerifierConsumer::finish without the closing call of next
VerifierFinishNoNext(v) ==
    IF HasGates(v.iter) THEN [err |-> "Panic", verifier |-> v, outputs |-> <<>>]
    ELSE [err |-> "Ok", verifier |-> v, outputs |-> OutputsOf(v.buffer, v.iter.circ)]

\* VerifierConsumer::finish
VerifierFinish(v) ==
    LET q == IF v.iter.complete THEN v ELSE VerifierNext(v, FALSE)
    IN  IF HasGates(v.iter) THEN [err |-> "Panic", verifier |-> v, outputs |-> <<>>]
        ELSE [err |-> "Ok", verifier |-> q, outputs |-> OutputsOf(q.buffer, q.iter.circ)]

\* compute_term of the verifier's Check::execute
VerifierTerm(t, chi, delta) ==
    GfMul(BXor(GfMul(t[1], t[2]), GfMul(delta, t[3])), chi)

\* Verifier::check, Check::execute : W and the verifier after it
VerifierCheck(v, mask_w) ==
    LET c == v.check
        t1 == c.transcript \o RawSlice(c.adjust)
        chis == Chis(HashBlock(t1), Len(c.terms))
        w == BXor(XorAll([i \in 1..Len(c.terms) |->
                             VerifierTerm(c.terms[i], chis[i], v.delta)]), mask_w)
    IN  [w |-> w,
         verifier |-> [v EXCEPT !.check = [transcript |-> t1, terms |-> <<>>,
                                           adjust |-> <<>>]]]

\* Verify::verify without record_terms
VerifyVerifyNoRecord(v, w, u, vv) == [err |-> "Ok", verifier |-> v]

\* Verify::verify : the terms are recorded; a mismatch is left as `// todo`
VerifyVerify(v, w, u, vv) ==
    [err |-> "Ok",
     verifier |-> [v EXCEPT !.check.transcript = @ \o ToBytes(u) \o ToBytes(vv)]]

\* Keys whose pointer bit is clear, as the key holder of a wire keeps them
ZeroLsbKeys(n) == {[i \in 1..n |-> k] : k \in {0, 2}}

\* Pairs (mask_u, mask_v) the prover may hold; the verifier holds
\* mask_w = mask_u xor Delta * mask_v
ZkMasks == {<<0, 0>>, <<1, 2>>, <<2, 3>>, <<3, 1>>}

ZkNew ==
    [pc |-> "execute", inputs |-> <<>>, adjust |-> "None",
     output_macs |-> <<>>, output_keys |-> <<>>,
     u |-> 0, v |-> 0, w |-> 0, ru |-> 0, rv |-> 0, result |-> "None"]

ZkInit ==
    /\ \E v \in Block : gen = VerifierNew(DeltaNew(v))
    /\ ev = ProverNew
    /\ st = ZkNew
    /\ gfut = <<>> /\ efut = <<>>
    /\ IdleKeys /\ IdleCorr /\ IdleNet

\* prover.execute(circ, input_macs, gate_masks, gate_macs) and
\* verifier.execute(circ, input_keys, gate_keys) over correlated inputs
ZkExecute ==
    /\ st.pc = "execute"
    /\ \E circ \in Circuits : \E x \in BitSeqs(2) : \E input_keys \in ZeroLsbKeys(2) :
       \E gate_keys \in UniformKeys(AndCount(circ)) \cup ZeroLsbKeys(AndCount(circ)) :
       \E gate_masks \in BitSeqs(AndCount(circ)) :
        LET delta == gen.delta
            input_macs == [i \in 1..2 |-> MacOf(input_keys[i], x[i], delta)]
            gate_macs == [i \in 1..AndCount(circ) |->
                             MacOf(gate_keys[i], gate_masks[i], delta)]
            p == ProverExecute(ev, circ, input_macs, gate_masks, gate_macs)
            v == VerifierExecute(gen, circ, input_keys, gate_keys)
        IN  /\ ev' = p.prover /\ gen' = v.verifier
            /\ st' = [st EXCEPT !.inputs = x,
                                !.pc = IF AndCount(circ) = 0 THEN "finish" ELSE "next"]
    /\ UNCHANGED <<keysVars, corr, gfut, efut, netVars>>

\* for adjust in prover_iter.by_ref()
ZkProverNext ==
    LET r == ProverIterNext(ev)
    IN  /\ st.pc = "next"
        /\ ev' = r.prover
        /\ st' = [st EXCEPT !.adjust = r.item, !.pc = "consume"]
        /\ UNCHANGED <<keysVars, corr, gen, gfut, efut, netVars>>

\* verifier_consumer.next(adjust)
ZkVerifierNext ==
    /\ st.pc = "consume"
    /\ gen' = VerifierNext(gen, st.adjust)
    /\ st' = [st EXCEPT !.pc = IF HasGates(ev.iter) THEN "next" ELSE "finish"]
    /\ UNCHANGED <<keysVars, corr, ev, gfut, efut, netVars>>

\* prover_iter.finish() and verifier_consumer.finish()
ZkFinish ==
    LET p == ProverIterFinish(ev)
        v == VerifierFinish(gen)
    IN  /\ st.pc = "finish"
        /\ ev' = p.prover /\ gen' = v.verifier
        /\ st' = [st EXCEPT !.output_macs = p.outputs, !.output_keys = v.outputs,
                            !.pc = "check"]
        /\ UNCHANGED <<keysVars, corr, gfut, efut, netVars>>

\* prover.check(mask_u, mask_v) and verifier.check(mask_w)
ZkCheck ==
    /\ st.pc = "check"
    /\ \E m \in ZkMasks :
        LET p == ProverCheck(ev, m[1], m[2])
            v == VerifierCheck(gen, BXor(m[1], GfMul(gen.delta, m[2])))
        IN  /\ ev' = p.prover /\ gen' = v.verifier
            /\ st' = [st EXCEPT !.u = p.u, !.v = p.v, !.w = v.w, !.pc = "verify"]
    /\ UNCHANGED <<keysVars, corr, gfut, efut, netVars>>

\* Verify::verify(u, v) on the terms that arrive: the prover's or others
ZkVerify ==
    /\ st.pc = "verify"
    /\ \E u \in Block : \E vv \in {st.v, BXor(st.v, 2)} :
        LET r == VerifyVerify(gen, st.w, u, vv)
        IN  /\ gen' = r.verifier
            /\ st' = [st EXCEPT !.ru = u, !.rv = vv, !.result = r.err, !.pc = "done"]
    /\ UNCHANGED <<keysVars, corr, ev, gfut, efut, netVars>>

ZkNext ==
    \/ ZkExecute
    \/ ZkProverNext
    \/ ZkVerifierNext
    \/ ZkFinish
    \/ ZkCheck
    \/ ZkVerify

SpecZk == ZkInit /\ [][ZkNext]_vars

\* C16: after the prover and the verifier have run a circuit of XOR, AND and
\* INV gates over inputs and COTs with M = K xor b * Delta, the (U, V) of
\* Prover::check(mask_u, mask_v) and the W of Verifier::check(mask_w) satisfy
\* W = U xor Delta * V when mask_w = mask_u xor Delta * mask_v.
C16_EngineComplete ==
    st.pc \in {"verify", "done"} => st.w = BXor(st.u, GfMul(gen.delta, st.v))

\* C17: Verify::verify(u, v) reports success exactly when W = u xor Delta * v;
\* a pair that does not satisfy the equation is never reported as success.
C17_VerifyAccepts ==
    st.pc = "done" =>
        ((st.result = "Ok") <=> (st.w = BXor(st.ru, GfMul(gen.delta, st.rv))))

-----------------------------------------------------------------------------
(* QuickSilver core (mpz-zk-core/src/quicksilver): Prover and Verifier     *)
(* buffer the AND gates of a window and check them in one batch.           *)

\* Length of the check buffers (1024 * 1024 in the program), scaled so that
\* a window can fill the whole buffer and span one whole byte of mask bits.
CHECK_BUFFER_SIZE == 8

\* Total number of AND gates authenticated in one run.
MaxGates == 9

\* Number of check_and_gates calls in one run.
MaxWindows == 2

\* value of the bits lo..hi of bv inside their byte, first bit highest
RECURSIVE BitsVal(_, _, _)
BitsVal(bv, lo, hi) ==
    IF lo > hi THEN 0
    ELSE (B2N(bv[lo]) * (2 ^ (7 - ((lo - 1) % 8)))) + BitsVal(bv, lo + 1, hi)

\* bools_to_bytes
bools_to_bytes(bv) ==
    LET offset == IF Len(bv) % 8 = 0 THEN 0 ELSE 1
        min(a, b) == IF a < b THEN a ELSE b
    IN  [k \in 1..((Len(bv) \div 8) + offset) |->
            BitsVal(bv, (8 * (k - 1)) + 1, min(8 * k, Len(bv)))]

\* Block::powers(x, n) = [x, x^2, ..., x^n], by successive multiplication
RECURSIVE PowersFrom(_, _, _)
PowersFrom(acc, x, n) ==
    IF n = 0 THEN <<>> ELSE <<acc>> \o PowersFrom(GfMul(acc, x), x, n - 1)

Powers(x, n) == PowersFrom(x, x, n)

\* Block::inn_prdt_red
RECURSIVE InnPrdtRed(_, _)
InnPrdtRed(a, b) ==
    IF a = <<>> \/ b = <<>> THEN BlockZERO
    ELSE BXor(GfMul(Head(a), Head(b)), InnPrdtRed(Tail(a), Tail(b)))

\* Vec<Block>::to_bytes
RECURSIVE BlocksToBytes(_)
BlocksToBytes(blocks) ==
    IF blocks = <<>> THEN <<>>
    ELSE ToBytes(Head(blocks)) \o BlocksToBytes(Tail(blocks))

\* The ideal VOPE of degree 1: the evaluation of the coefficients at delta
VopeEval(coeff, delta) == BXor(coeff[1], GfMul(delta, coeff[2]))

\* Prover::set_value
SetValue(block, b) == SetLsb(block, b)

\* set_zero that leaves the pointer bit as it is
SetZeroKeep(block) == block

\* Verifier::set_zero
SetZero(block) == SetLsb(block, FALSE)

\* `checked = cmp` : the status follows the last comparison
AssignLast(checked, cmp) == cmp

\* `checked &= cmp`
AndAssign(checked, cmp) == checked /\ cmp

\* Prover::new
QsProverNew ==
    [buf_left |-> [i \in 1..CHECK_BUFFER_SIZE |-> BlockZERO],
     buf_right |-> [i \in 1..CHECK_BUFFER_SIZE |-> BlockZERO],
     buf_out |-> [i \in 1..CHECK_BUFFER_SIZE |-> BlockZERO],
     check_counter |-> 0,
     hasher |-> <<>>,
     buf_hash |-> [i \in 1..CHECK_BUFFER_SIZE |-> FALSE]]

\* Verifier::new
QsVerifierNew(delta) ==
    [delta |-> delta,
     buf_left |-> [i \in 1..CHECK_BUFFER_SIZE |-> BlockZERO],
     buf_right |-> [i \in 1..CHECK_BUFFER_SIZE |-> BlockZERO],
     buf_out |-> [i \in 1..CHECK_BUFFER_SIZE |-> BlockZERO],
     check_counter |-> 0,
     hasher |-> <<>>,
     buf_hash |-> [i \in 1..CHECK_BUFFER_SIZE |-> FALSE],
     checked |-> TRUE]

\* Prover::auth_input_bits
QsProverAuthInputBits(p, inputs, choices, blks) ==
    IF Len(choices) # Len(inputs)
    THEN [err |-> "Err", prover |-> p, masks |-> <<>>, macs |-> <<>>]
    ELSE LET masks == [i \in 1..Len(inputs) |-> inputs[i] # choices[i]]
             macs  == [i \in 1..Len(inputs) |-> SetValue(blks[i], inputs[i])]
         IN  [err |-> "Ok",
              prover |-> [p EXCEPT !.hasher = @ \o bools_to_bytes(masks)],
              masks |-> masks, macs |-> macs]

\* Verifier::auth_input_bits
QsVerifierAuthInputBits(v, masks, blks) ==
    IF Len(masks) # Len(blks)
    THEN [err |-> "Err", verifier |-> v, keys |-> <<>>]
    ELSE [err |-> "Ok",
          verifier |-> [v EXCEPT !.hasher = @ \o bools_to_bytes(masks)],
          keys |-> [i \in 1..Len(blks) |->
                      SetZero(BXor(blks[i],
                                   IF masks[i] THEN v.delta ELSE BlockZERO))]]

\* Prover::auth_and_gate
QsProverAuthAndGate(p, ma, mb, s, blk) ==
    IF ~(p.check_counter < CHECK_BUFFER_SIZE)
    THEN [err |-> "Panic", prover |-> p, d |-> FALSE, mc |-> BlockZERO]
    ELSE LET c  == p.check_counter + 1
             v  == Lsb(ma) /\ Lsb(mb)
             d  == v # s
             mc == SetValue(blk, v)
         IN  [err |-> "Ok",
              prover |-> [p EXCEPT !.buf_left[c] = ma, !.buf_right[c] = mb,
                                   !.buf_out[c] = mc, !.buf_hash[c] = d,
                                   !.check_counter = c],
              d |-> d, mc |-> mc]

\* Verifier::auth_and_gate
QsVerifierAuthAndGate(v, ka, kb, mask, cot) ==
    IF ~(v.check_counter < CHECK_BUFFER_SIZE)
    THEN [err |-> "Panic", verifier |-> v, kc |-> BlockZERO]
    ELSE LET c  == v.check_counter + 1
             kc == SetZero(BXor(cot, IF mask THEN v.delta ELSE BlockZERO))
         IN  [err |-> "Ok",
              verifier |-> [v EXCEPT !.buf_left[c] = ka, !.buf_right[c] = kb,
                                     !.buf_hash[c] = mask, !.buf_out[c] = kc,
                                     !.check_counter = c],
              kc |-> kc]

\* Prover::check_and_gates
QsProverCheckAndGates(p, vope) ==
    LET n  == p.check_counter
        a0 == [i \in 1..n |-> GfMul(p.buf_left[i], p.buf_right[i])]
        a1 == [i \in 1..n |->
                BXor(BXor(IF Lsb(p.buf_left[i]) THEN p.buf_right[i] ELSE BlockZERO,
                          IF Lsb(p.buf_right[i]) THEN p.buf_left[i] ELSE BlockZERO),
                     p.buf_out[i])]
        h    == p.hasher \o bools_to_bytes(SubSeq(p.buf_hash, 1, n))
        seed == HashBlock(h)
        chis == Powers(seed, n)
        u    == BXor(InnPrdtRed(a0, chis), vope[1])
        v    == BXor(InnPrdtRed(a1, chis), vope[2])
    IN  [err |-> "Ok",
         prover |-> [p EXCEPT !.hasher = h \o ToBytes(u) \o ToBytes(v),
                              !.check_counter = 0],
         u |-> u, v |-> v, seed |-> seed]

\* Verifier::check_and_gates ; the mask bits hashed are buf_hash[..=check_counter]
QsVerifierCheckAndGates(v, eval, u, vv) ==
    LET n == v.check_counter
    IN  IF n + 1 > CHECK_BUFFER_SIZE
        THEN [err |-> "Panic", verifier |-> v, seed |-> BlockZERO, cmp |-> FALSE]
        ELSE LET block == [i \in 1..n |->
                            BXor(GfMul(v.buf_left[i], v.buf_right[i]),
                                 GfMul(v.buf_out[i], v.delta))]
                 h    == v.hasher \o bools_to_bytes(SubSeq(v.buf_hash, 1, n + 1))
                 seed == HashBlock(h)
                 chis == Powers(seed, n)
                 w    == InnPrdtRed(block, chis)
                 cmp  == BXor(w, eval) = BXor(u, GfMul(vv, v.delta))
             IN  [err |-> "Ok",
                  verifier |-> [v EXCEPT !.checked = AndAssign(@, cmp),
                                         !.hasher = h \o ToBytes(u) \o ToBytes(vv),
                                         !.check_counter = 0],
                  seed |-> seed, cmp |-> cmp]

\* Prover::enable_check / Verifier::enable_check
QsEnableCheck(c) == c.check_counter = CHECK_BUFFER_SIZE

\* Verifier::enable_final_check
QsEnableFinalCheck(v) == v.check_counter # 0

\* Prover::finish : the hash of the output MACs
QsProverFinish(p, macs) == Blake3(BlocksToBytes(macs))

\* Verifier::finish
QsVerifierFinish(v, hash, keys, outputs) ==
    IF Len(keys) # Len(outputs)
    THEN [err |-> "Err", verifier |-> v, cmp |-> FALSE]
    ELSE LET pre_hash == [i \in 1..Len(keys) |->
                            IF outputs[i] THEN BXor(keys[i], v.delta) ELSE keys[i]]
             cmp == hash = Blake3(BlocksToBytes(pre_hash))
         IN  [err |-> "Ok",
              verifier |-> [v EXCEPT !.checked = AndAssign(@, cmp)],
              cmp |-> cmp]

\* Verifier::checked
QsChecked(v) == v.checked

(* The run of test_qs_core: inputs are authenticated, AND gates over the   *)
(* input wires are authenticated and checked in windows, then the output   *)
(* hash is compared.  The prover's (u, v) and hash may be replaced.        *)

\* COT outputs for the input wires: choice bits and sender keys
\* and, for the gates, the period of the set choice bits in the COT stream
QsCots == {[choices |-> <<FALSE, TRUE>>, keys |-> <<2, 3>>, period |-> 2],
           [choices |-> <<TRUE, FALSE>>, keys |-> <<1, 0>>, period |-> 3]}

\* VOPE coefficients of the w-th check
QsVopeAt(w) == IF w % 2 = 0 THEN <<3, 1>> ELSE <<1, 2>>

\* the wires of the g-th AND gate and the sender key of its COT
QsLeft(g) == 1 + (g % 2)
QsRight(g) == 1 + ((g \div 2) % 2)
QsCotKey(g) == g % 4

QsNew ==
    [pc |-> "input", inputs |-> <<>>, macs |-> <<>>, keys |-> <<>>,
     period |-> 1, gates |-> 0, windows |-> 0, out_mac |-> BlockZERO, out_key |-> BlockZERO,
     honest |-> TRUE, n |-> 0, pseed |-> BlockZERO, vseed |-> BlockZERO,
     err |-> "Ok", passed |-> TRUE, failed |-> FALSE]

QsInit ==
    /\ \E d \in Block : gen = QsVerifierNew(DeltaNew(d))
    /\ ev = QsProverNew
    /\ st = QsNew
    /\ gfut = <<>> /\ efut = <<>>
    /\ IdleKeys /\ IdleCorr /\ IdleNet

QsAuthInputBits ==
    /\ st.pc = "input"
    /\ \E cot \in QsCots : \E inputs \in [1..Len(cot.keys) -> BOOLEAN] :
        LET ck   == cot.choices
            kk   == cot.keys
            blks == [i \in 1..Len(kk) |->
                        BXor(kk[i], IF ck[i] THEN gen.delta ELSE BlockZERO)]
            p == QsProverAuthInputBits(ev, inputs, ck, blks)
            v == QsVerifierAuthInputBits(gen, p.masks, kk)
        IN  /\ ev' = p.prover /\ gen' = v.verifier
            /\ st' = [st EXCEPT !.pc = "gates", !.inputs = inputs,
                                !.period = cot.period,
                                !.macs = p.macs, !.keys = v.keys]
    /\ UNCHANGED <<keysVars, corr, gfut, efut, netVars>>

QsAuthAndGate ==
    /\ st.pc = "gates"
    /\ st.gates < MaxGates
    /\ ev.check_counter < CHECK_BUFFER_SIZE
    /\ LET s == (st.gates % st.period) = 0
            a == QsLeft(st.gates)
            b == QsRight(st.gates)
            k == QsCotKey(st.gates)
            blk == BXor(k, IF s THEN gen.delta ELSE BlockZERO)
            p == QsProverAuthAndGate(ev, st.macs[a], st.macs[b], s, blk)
            v == QsVerifierAuthAndGate(gen, st.keys[a], st.keys[b], p.d, k)
        IN  /\ ev' = p.prover /\ gen' = v.verifier
            /\ st' = [st EXCEPT !.gates = @ + 1, !.out_mac = p.mc,
                                !.out_key = v.kc]
    /\ UNCHANGED <<keysVars, corr, gfut, efut, netVars>>

QsCheckAndGates ==
    /\ st.pc = "gates"
    /\ st.windows < MaxWindows
    /\ ev.check_counter >= 1
    /\ \E flip \in {0, 2} :
        LET coeff == QsVopeAt(st.windows)
            p == QsProverCheckAndGates(ev, coeff)
            u == BXor(p.u, flip)
            v == QsVerifierCheckAndGates(gen, VopeEval(coeff, gen.delta), u, p.v)
        IN  /\ ev' = p.prover /\ gen' = v.verifier
            /\ st' = [st EXCEPT !.windows = @ + 1, !.n = ev.check_counter,
                                !.pseed = p.seed, !.vseed = v.seed,
                                !.err = v.err,
                                !.pc = IF v.err = "Ok" THEN "gates" ELSE "panic",
                                !.honest = @ /\ flip = 0,
                                !.passed = v.cmp,
                                !.failed = @ \/ (v.err = "Ok" /\ ~v.cmp)]
    /\ UNCHANGED <<keysVars, corr, gfut, efut, netVars>>

QsFinish ==
    /\ st.pc = "gates"
    /\ st.gates >= 1
    /\ ~QsEnableFinalCheck(gen)
    /\ \E forged \in BOOLEAN : \E outputs \in {<<Lsb(st.out_mac)>>, <<>>} :
        LET hash == QsProverFinish(ev, <<IF forged THEN BXor(st.out_mac, 2)
                                         ELSE st.out_mac>>)
            v == QsVerifierFinish(gen, hash, <<st.out_key>>, outputs)
        IN  /\ gen' = v.verifier
            /\ st' = [st EXCEPT !.pc = "finished", !.err = v.err,
                                !.honest = @ /\ ~forged /\ outputs # <<>>,
                                !.passed = v.cmp,
                                !.failed = @ \/ (v.err = "Ok" /\ ~v.cmp)]
    /\ UNCHANGED <<keysVars, corr, ev, gfut, efut, netVars>>

QsNext == QsAuthInputBits \/ QsAuthAndGate \/ QsCheckAndGates \/ QsFinish

SpecQs == QsInit /\ [][QsNext]_vars

C20_CoreComplete ==
    (st.pc \in {"gates", "panic", "finished"} /\ st.windows >= 1 /\ st.honest) =>
        /\ st.err = "Ok"
        /\ st.pseed = st.vseed
        /\ ev.hasher = gen.hasher
        /\ QsChecked(gen)
-----------------------------------------------------------------------------
(* The ZK session of the verifier (mpz-zk/src/quicksilver/verifier.rs):    *)
(* Verifier::verify walks the circuit, one step per await; what the prover *)
(* sends (masks, (u, v), hash) is whatever arrives on the channel.         *)

\* a chain of n AND gates over the inputs 0 and 1
AndChain(n) ==
    Circuit(2, [i \in 1..n |-> GAnd(IF i = 1 THEN 0 ELSE i, 1, i + 1)], n + 1)

\* The circuits a session verifies
SessCircuits == Circuits \cup {AndChain(CHECK_BUFFER_SIZE + 1)}

\* VerifierCore::default, what std::mem::take leaves behind
QsVerifierDefault ==
    [delta |-> BlockZERO, buf_left |-> <<>>, buf_right |-> <<>>,
     buf_out |-> <<>>, check_counter |-> 0, hasher |-> <<>>,
     buf_hash |-> <<>>, checked |-> FALSE]

\* Verifier::new
SessVerifierNew(delta) == [keys |-> <<>>, verifier_core |-> QsVerifierNew(delta)]

\* Verifier::checked
SessChecked(v) == QsChecked(v.verifier_core)

\* Verifier::check_and_gates : the VOPE, the prover's (u, v), then the core
\* check on the taken verifier_core
SessCheckAndGates(v, fail, eval, u, vv) ==
    IF fail THEN [err |-> "Err", verifier |-> v, ran |-> FALSE, cmp |-> FALSE]
    ELSE LET r == QsVerifierCheckAndGates(v.verifier_core, eval, u, vv)
         IN  IF r.err = "Panic"
             THEN [err |-> "Panic",
                   verifier |-> [v EXCEPT !.verifier_core = QsVerifierDefault],
                   ran |-> FALSE, cmp |-> FALSE]
             ELSE [err |-> "Ok",
                   verifier |-> [v EXCEPT !.verifier_core = r.verifier],
                   ran |-> TRUE, cmp |-> r.cmp]

\* the sender key of the k-th random COT of the session
SessCotKey(k) == (k + 2) % 4

SessNew ==
    [pc |-> "verify", circ |-> Circuit(0, <<>>, 0), output_value |-> <<>>,
     gate |-> 1, cots |-> 0, result |-> "None",
     windows |-> 0, window_failed |-> FALSE,
     hash_run |-> FALSE, hash_passed |-> FALSE]

SessInit ==
    /\ \E d \in Block : gen = SessVerifierNew(DeltaNew(d))
    /\ ev = [pc |-> "idle"]
    /\ st = SessNew
    /\ gfut = <<>> /\ efut = <<>>
    /\ IdleKeys /\ IdleCorr /\ IdleNet

\* what a check adds to the history of the session
SessNoteCheck(s, c) ==
    [s EXCEPT !.windows = IF c.ran THEN @ + 1 ELSE @,
              !.window_failed = @ \/ (c.ran /\ ~c.cmp)]

\* verify, up to the first await: the output count and the resize of keys
SessVerify ==
    /\ st.pc = "verify"
    /\ \E circ \in SessCircuits :
       \E output_value \in {<<TRUE>>, <<FALSE>>, <<>>} :
        IF Len(output_value) # Len(circ.outputs)
        THEN /\ st' = [st EXCEPT !.pc = "done", !.circ = circ,
                                 !.output_value = output_value,
                                 !.result = "InvalidOutputCount"]
             /\ gen' = gen
        ELSE /\ st' = [st EXCEPT !.pc = "inputs", !.circ = circ,
                                 !.output_value = output_value]
             /\ gen' = [gen EXCEPT !.keys =
                          [i \in 1..(IF FeedCount(circ) > Len(gen.keys)
                                     THEN FeedCount(circ) ELSE Len(gen.keys)) |->
                              IF i <= Len(gen.keys) THEN gen.keys[i]
                              ELSE BlockZERO]]
    /\ UNCHANGED <<keysVars, corr, ev, gfut, efut, netVars>>

\* auth_inputs and the copy of the input keys
SessAuthInputs ==
    /\ st.pc = "inputs"
    /\ \E fail \in BOOLEAN :
       \E masks \in [1..st.circ.input_len -> BOOLEAN] \cup {<<>>} :
        LET n    == st.circ.input_len
            blks == [i \in 1..n |-> SessCotKey(st.cots + i)]
            r    == QsVerifierAuthInputBits(gen.verifier_core, masks, blks)
        IN  IF fail
            THEN /\ st' = [st EXCEPT !.pc = "done", !.result = "Err"]
                 /\ gen' = gen
            ELSE IF Len(masks) # n
            THEN /\ st' = [st EXCEPT !.pc = "done", !.result = "Panic"]
                 /\ gen' = gen
            ELSE /\ st' = [st EXCEPT !.pc = "gates", !.gate = 1,
                                     !.cots = @ + n]
                 /\ gen' = [gen EXCEPT
                              !.verifier_core = r.verifier,
                              !.keys = [i \in 1..Len(gen.keys) |->
                                          IF i <= n THEN r.keys[i] ELSE gen.keys[i]]]
    /\ UNCHANGED <<keysVars, corr, ev, gfut, efut, netVars>>

\* one turn of the loop over circ.gates()
SessGate ==
    /\ st.pc = "gates"
    /\ st.gate <= Len(st.circ.gates)
    /\ LET g   == st.circ.gates[st.gate]
           x_0 == gen.keys[g.x + 1]
           y_0 == gen.keys[g.y + 1]
       IN  CASE g.op = "Xor" ->
                 /\ gen' = [gen EXCEPT !.keys[g.z + 1] = BXor(x_0, y_0)]
                 /\ st' = [st EXCEPT !.gate = @ + 1]
             [] g.op = "Inv" ->
                 /\ gen' = [gen EXCEPT !.keys[g.z + 1] =
                              BXor(BXor(x_0, gen.verifier_core.delta), 1)]
                 /\ st' = [st EXCEPT !.gate = @ + 1]
             [] g.op = "And" ->
                 \E fail \in BOOLEAN : \E u \in Block : \E mask \in BOOLEAN :
                    LET c  == IF QsEnableCheck(gen.verifier_core)
                              THEN SessCheckAndGates(gen, fail, BlockZERO, u, BlockZERO)
                              ELSE [err |-> IF fail THEN "Err" ELSE "Ok",
                                    verifier |-> gen, ran |-> FALSE, cmp |-> FALSE]
                        a  == QsVerifierAuthAndGate(c.verifier.verifier_core, x_0, y_0,
                                                    mask, SessCotKey(st.cots + 1))
                    IN  IF c.err # "Ok"
                        THEN /\ gen' = c.verifier
                             /\ st' = [SessNoteCheck(st, c) EXCEPT
                                          !.pc = "done", !.result = c.err]
                        ELSE /\ gen' = [c.verifier EXCEPT
                                          !.verifier_core = a.verifier,
                                          !.keys[g.z + 1] = a.kc]
                             /\ st' = [SessNoteCheck(st, c) EXCEPT
                                          !.gate = @ + 1, !.cots = @ + 1]
    /\ UNCHANGED <<keysVars, corr, ev, gfut, efut, netVars>>

\* the final check of the AND gates still buffered
SessFinalCheck ==
    /\ st.pc = "gates"
    /\ st.gate > Len(st.circ.gates)
    /\ IF QsEnableFinalCheck(gen.verifier_core)
       THEN \E fail \in BOOLEAN : \E u \in Block :
               LET c == SessCheckAndGates(gen, fail, BlockZERO, u, BlockZERO)
               IN  /\ gen' = c.verifier
                   /\ st' = [SessNoteCheck(st, c) EXCEPT
                                !.pc = IF c.err = "Ok" THEN "hash" ELSE "done",
                                !.result = IF c.err = "Ok" THEN @ ELSE c.err]
       ELSE /\ gen' = gen
            /\ st' = [st EXCEPT !.pc = "hash"]
    /\ UNCHANGED <<keysVars, corr, ev, gfut, efut, netVars>>

\* the hash of the output MACs is received and compared
SessFinish ==
    /\ st.pc = "hash"
    /\ \E fail \in BOOLEAN : \E m \in {0, 2} :
        LET output_keys == [i \in 1..Len(st.circ.outputs) |->
                               gen.keys[st.circ.outputs[i] + 1]]
            macs == [i \in 1..Len(output_keys) |->
                       BXor(m, IF st.output_value[i]
                               THEN BXor(output_keys[i], gen.verifier_core.delta)
                               ELSE output_keys[i])]
            hash == Blake3(BlocksToBytes(macs))
            r == QsVerifierFinish(gen.verifier_core, hash, output_keys,
                                  st.output_value)
        IN  IF fail \/ r.err # "Ok"
            THEN /\ gen' = gen
                 /\ st' = [st EXCEPT !.pc = "done", !.result = "Err"]
            ELSE /\ gen' = [gen EXCEPT !.verifier_core = r.verifier]
                 /\ st' = [st EXCEPT !.pc = "done", !.result = "Ok",
                                     !.hash_run = TRUE, !.hash_passed = r.cmp]
    /\ UNCHANGED <<keysVars, corr, ev, gfut, efut, netVars>>

SessNext == SessVerify \/ SessAuthInputs \/ SessGate \/ SessFinalCheck \/ SessFinish

SpecSess == SessInit /\ [][SessNext]_vars

\* C18: a session that has ended with checked() = true has returned Ok, and
\* every AND check window and the output-hash comparison were executed and
\* passed; a session that fails leaves checked() = false.
C18_FailedSessionUnchecked ==
    (st.pc = "done" /\ SessChecked(gen)) =>
        /\ st.result = "Ok"
        /\ ~st.window_failed
        /\ st.hash_run /\ st.hash_passed
-----------------------------------------------------------------------------
(* KeyStore: alloc_with and the correlation Delta *)

\* C26: after s = alloc_with(keys) on a KeyStore, is_set(s) and is_used(s)
\* are both true: the provided keys are marked as used.
C26_AllocWithUsed ==
    last.op = "alloc_with" =>
        (KsIsSet(ks, last.slice) /\ KsIsUsed(ks, last.slice))

\* C27: Delta::new(v) has its pointer bit set for every block v, and no
\* KeyStore operation changes the Delta the store was created with.
C27_DeltaFixed ==
    /\ \A v \in Block : Lsb(DeltaNew(v))
    /\ Lsb(ks.delta)
    /\ [][ks.delta' = ks.delta /\ Lsb(ks.delta')]_vars

\* keys were adjusted and released under the Delta of the store
C27_Witness ==
    /\ last.op \in {"adjust", "authenticate", "oblivious_transfer"}
    /\ last.err = "Ok"
    /\ ks.used # {}
    /\ Lsb(ks.delta)
-----------------------------------------------------------------------------
(* Allocation on the garbled stores: alloc and alloc_output of the         *)
(* GeneratorStore, alloc of the EvaluatorStore, in any order; st keeps the *)
(* slices returned and the lengths asked for.                              *)

AlNew == [pc |-> "alloc", gslices |-> <<>>, glens |-> <<>>,
          eslices |-> <<>>, elens |-> <<>>, outputs |-> {}]

AlInit ==
    /\ \E v \in Block : gen = GenNew(DeltaNew(v))
    /\ ev = EvNew
    /\ st = AlNew
    /\ gfut = <<>> /\ efut = <<>>
    /\ IdleKeys /\ IdleCorr /\ IdleNet

AlGenAlloc ==
    /\ \E len \in SliceLens : \E keys \in PrgSeqs(len) :
        /\ StoreLen(gen.data_store) + len <= MaxArena
        /\ gen' = GenAlloc(gen, keys)
        /\ st' = [st EXCEPT !.gslices = Append(@, AllocSlice(gen.data_store, len)),
                            !.glens = Append(@, len)]
    /\ UNCHANGED <<keysVars, corr, ev, gfut, efut, netVars>>

AlGenAllocOutput ==
    /\ \E len \in SliceLens :
        /\ StoreLen(gen.data_store) + len <= MaxArena
        /\ gen' = GenAllocOutput(gen, len)
        /\ st' = [st EXCEPT !.gslices = Append(@, AllocSlice(gen.data_store, len)),
                            !.glens = Append(@, len),
                            !.outputs = @ \cup {Len(st.gslices) + 1}]
    /\ UNCHANGED <<keysVars, corr, ev, gfut, efut, netVars>>

AlGenSetOutput ==
    /\ \E i \in st.outputs : \E keys \in UniformKeys(st.glens[i]) :
        LET r == GenSetOutput(gen, st.gslices[i], keys)
        IN  /\ r.err = "Ok"
            /\ gen' = r.gen
    /\ UNCHANGED <<keysVars, corr, ev, st, gfut, efut, netVars>>

AlEvAlloc ==
    /\ \E len \in SliceLens :
        /\ StoreLen(ev.data_store) + len <= MaxArena
        /\ ev' = EvAlloc(ev, len)
        /\ st' = [st EXCEPT !.eslices = Append(@, AllocSlice(ev.data_store, len)),
                            !.elens = Append(@, len)]
    /\ UNCHANGED <<keysVars, corr, gen, gfut, efut, netVars>>

AlNext == AlGenAlloc \/ AlGenAllocOutput \/ AlGenSetOutput \/ AlEvAlloc

SpecAlloc == AlInit /\ [][AlNext]_vars

\* the slices start where the previous allocation ended, have the lengths
\* asked for, and lie inside an arena of length n
Contiguous(slices, lens, n) ==
    /\ Len(slices) = Len(lens)
    /\ \A i \in 1..Len(slices) :
        /\ slices[i].ptr = SumSeq(SubSeq(lens, 1, i - 1))
        /\ slices[i].size = lens[i]
        /\ slices[i].ptr + slices[i].size <= n
    /\ \A i, j \in 1..Len(slices) :
        i # j => ToRange(slices[i]) \cap ToRange(slices[j]) = {}

\* C25: every slice returned by alloc / alloc_output of the GeneratorStore
\* and by alloc of the EvaluatorStore starts at the previous length of the
\* store and has the requested length; all arenas of one store have equal
\* length, so slices never overlap and address the same range in each arena.
C25_AllocDiscipline ==
    /\ StoreLen(gen.key_store.keys) = StoreLen(gen.data_store)
    /\ StoreLen(ev.mac_store.macs) = StoreLen(ev.data_store)
    /\ StoreLen(ev.key_bit_store) = StoreLen(ev.data_store)
    /\ Contiguous(st.gslices, st.glens, StoreLen(gen.key_store.keys))
    /\ Contiguous(st.eslices, st.elens, StoreLen(ev.mac_store.macs))

\* both stores hold two allocations, one of them for circuit outputs
C25_Witness ==
    /\ Len(st.gslices) >= 2 /\ Len(st.eslices) >= 2
    /\ st.outputs # {}
    /\ \E i \in 1..Len(st.gslices) : i \notin st.outputs
-----------------------------------------------------------------------------
(* The streaming engine, gate by gate (test_zk) *)

\* the i-th entry of the prover's check buffer is the i-th AND gate, made
\* from gate_masks[i] and gate_macs[i]
ProverEntryAt(p, i) ==
    LET t == p.check.terms[i]
        w == Lsb(t[1]) /\ Lsb(t[2])
    IN  /\ t[3] = SetLsb(p.gate_macs[i], w)
        /\ p.check.adjust[i] = (p.gate_masks[i] # w)

\* the i-th entry of the verifier's check buffer is the i-th AND gate, made
\* from gate_keys[i] and the i-th adjust bit
VerifierEntryAt(v, i) ==
    v.check.terms[i][3] =
        SetLsb(BXor(v.gate_keys[i],
                    IF v.check.adjust[i] THEN v.delta ELSE BlockZERO), FALSE)

\* C29: the adjust bits of ProverIter, fed in order to VerifierConsumer::next,
\* are strictly sequential: the prover yields exactly and_count bits, the
\* i-th bit comes from the prover's i-th AND gate with gate_masks[i] and
\* gate_macs[i] and is applied to the verifier's i-th AND gate with
\* gate_keys[i]; every gate is processed once on each side and both check
\* buffers hold the same adjust bit as their i-th entry.
C29_MasksSequential ==
    st.pc \in {"next", "consume", "finish", "check"} =>
        LET n == ev.iter.counter
            m == gen.iter.counter
        IN  /\ Len(ev.check.adjust) = n /\ Len(ev.check.terms) = n
            /\ Len(gen.check.adjust) = m /\ Len(gen.check.terms) = m
            /\ m = (IF st.pc = "consume" THEN n - 1 ELSE n)
            /\ n <= AndCount(ev.iter.circ)
            /\ \A i \in 1..n : ProverEntryAt(ev, i)
            /\ \A i \in 1..m : /\ VerifierEntryAt(gen, i)
                                /\ gen.check.adjust[i] = ev.check.adjust[i]
            /\ st.pc = "consume" => st.adjust = ev.check.adjust[n]
            /\ st.pc = "next" => ev.iter.gate = gen.iter.gate
            /\ st.pc = "check" =>
                  /\ n = AndCount(ev.iter.circ)
                  /\ ev.iter.gate = Len(ev.iter.circ.gates) + 1
                  /\ gen.iter.gate = Len(gen.iter.circ.gates) + 1

\* two AND gates with a free gate between them, with different adjust bits
C29_Witness ==
    /\ st.pc = "check"
    /\ AndCount(ev.iter.circ) = 2
    /\ ev.check.adjust = <<TRUE, FALSE>>
    /\ gen.check.adjust = <<TRUE, FALSE>>

\* C30: for an INV gate the verifier sets K_z = K_x xor Delta xor ONE while
\* the prover flips the pointer bit of M_x, so that M_z = K_z xor (not x)*Delta
\* whenever M_x = K_x xor x*Delta.
C30_InvKey ==
    st.pc = "check" =>
        \A i \in 1..Len(ev.iter.circ.gates) :
            LET g == ev.iter.circ.gates[i]
                m_x == ev.buffer[g.x + 1]
                m_z == ev.buffer[g.z + 1]
                k_x == gen.buffer[g.x + 1]
                k_z == gen.buffer[g.z + 1]
            IN  g.op = "Inv" =>
                  /\ m_z = XorLsb(m_x, TRUE)
                  /\ k_z = BXor(BXor(k_x, gen.delta), 1)
                  /\ \A x \in BOOLEAN :
                        m_x = MacOf(k_x, x, gen.delta) =>
                            m_z = MacOf(k_z, ~x, gen.delta)
-----------------------------------------------------------------------------
(* Prover::prove and Verifier::verify of mpz-zk run side by side over one  *)
(* channel and an ideal RCOT (test_qs).  ev is the Prover, gen the         *)
(* Verifier, st the channel, the positions of the two calls and a log.     *)

\* Turns of the prover's gate loop that are followed.
MaxTurns == 2

\* The circuits proved
PvCircuits ==
    { Circuit(1, <<>>, 0),
      Circuit(1, <<GAnd(0, 0, 1)>>, 1),
      Circuit(1, <<GInv(0, 1), GAnd(1, 0, 2)>>, 2),
      Circuit(2, <<GAnd(0, 1, 2)>>, 2),
      Circuit(2, <<GXor(0, 1, 2), GAnd(2, 1, 3)>>, 3) }

\* the k-th random COT of the ideal RCOT: choice bit and the two messages
PvCotChoice(k) == (k % 2) = 1
PvCotMsg(k, delta) ==
    BXor(SessCotKey(k), IF PvCotChoice(k) THEN delta ELSE BlockZERO)

\* Prover::new
PvProverNew == [macs |-> <<>>, prover_core |-> QsProverNew]

\* `circ.gates().iter().next()` : the first item of a fresh iterator, if any
FirstGate(gates) == SubSeq(gates, 1, IF gates = <<>> THEN 0 ELSE 1)

\* expect_next::<Vec<bool>>() : a byte string is read as bools when every
\* byte is 0 or 1
RecvBools(msg) ==
    CASE msg.type = "bools" -> [err |-> "Ok", val |-> msg.val]
      [] msg.type = "bytes" /\ \A i \in 1..Len(msg.val) : msg.val[i] \in {0, 1} ->
            [err |-> "Ok", val |-> [i \in 1..Len(msg.val) |-> msg.val[i] = 1]]
      [] OTHER -> [err |-> "Err", val |-> <<>>]

\* expect_next::<T>() for the other messages
RecvTyped(msg, type) ==
    IF msg.type = type THEN [err |-> "Ok", val |-> msg.val]
    ELSE [err |-> "Err", val |-> msg.val]

PvNew ==
    [circ |-> Circuit(0, <<>>, 0), inputs |-> <<>>, output_value |-> <<>>,
     p |-> "start", v |-> "start", chan |-> <<>>,
     presult |-> "None", vresult |-> "None",
     visits |-> <<>>, vgate |-> 1, pcots |-> 0, vcots |-> 0,
     mask_msg |-> <<>>, choices |-> <<>>,
     sent |-> <<>>, used |-> <<>>]

PvInit ==
    /\ \E d \in Block : gen = SessVerifierNew(DeltaNew(d))
    /\ ev = PvProverNew
    /\ st = PvNew
    /\ gfut = <<>> /\ efut = <<>>
    /\ IdleKeys /\ IdleCorr /\ IdleNet

\* buffer.resize(feed_count, Default) when the circuit needs more
ResizeFor(buffer, circ) ==
    [i \in 1..(IF FeedCount(circ) > Len(buffer) THEN FeedCount(circ)
               ELSE Len(buffer)) |->
        IF i <= Len(buffer) THEN buffer[i] ELSE BlockZERO]

\* both calls up to their first await
PvStart ==
    /\ st.p = "start"
    /\ \E circ \in PvCircuits : \E inputs \in BitSeqs(circ.input_len) :
       \E o \in BOOLEAN :
        /\ ev' = [ev EXCEPT !.macs = ResizeFor(ev.macs, circ)]
        /\ gen' = [gen EXCEPT !.keys = ResizeFor(gen.keys, circ)]
        /\ st' = [st EXCEPT !.circ = circ, !.inputs = inputs,
                            !.output_value = <<o>>,
                            !.p = "inputs", !.v = "inputs",
                            !.visits = [i \in 1..Len(circ.gates) |-> 0]]
    /\ UNCHANGED <<keysVars, corr, gfut, efut, netVars>>

\* Prover::auth_inputs and the copy of the input MACs
PvProverAuthInputs ==
    /\ st.p = "inputs"
    /\ LET n    == Len(st.inputs)
           ch   == [i \in 1..n |-> PvCotChoice(st.pcots + i)]
           blks == [i \in 1..n |-> PvCotMsg(st.pcots + i, gen.verifier_core.delta)]
           r    == QsProverAuthInputBits(ev.prover_core, st.inputs, ch, blks)
           msg  == [type |-> "bytes", val |-> bools_to_bytes(r.masks)]
       IN  /\ ev' = [ev EXCEPT !.prover_core = r.prover,
                               !.macs = [i \in 1..Len(ev.macs) |->
                                           IF i <= n THEN r.macs[i] ELSE ev.macs[i]]]
           /\ st' = [st EXCEPT !.p = "gates", !.pcots = @ + n,
                               !.chan = Append(@, msg),
                               !.mask_msg = <<msg>>, !.choices = ch]
    /\ UNCHANGED <<keysVars, corr, gen, gfut, efut, netVars>>

\* one turn of `while let Some(gate) = circ.gates().iter().next()`
PvProverGate ==
    /\ st.p = "gates"
    /\ FirstGate(st.circ.gates) # <<>>
    /\ st.visits[1] < MaxTurns
    /\ LET g   == FirstGate(st.circ.gates)[1]
           x_0 == ev.macs[g.x + 1]
           y_0 == ev.macs[g.y + 1]
           a   == QsProverAuthAndGate(ev.prover_core, x_0, y_0,
                                      PvCotChoice(st.pcots + 1),
                                      PvCotMsg(st.pcots + 1, gen.verifier_core.delta))
           seen == [st EXCEPT !.visits[1] = @ + 1]
       IN  CASE g.op = "Xor" ->
                 /\ ev' = [ev EXCEPT !.macs[g.z + 1] = BXor(x_0, y_0)]
                 /\ st' = seen
             [] g.op = "Inv" ->
                 /\ ev' = [ev EXCEPT !.macs[g.z + 1] = BXor(x_0, 1)]
                 /\ st' = seen
             [] g.op = "And" ->
                 /\ ~QsEnableCheck(ev.prover_core)
                 /\ ev' = [ev EXCEPT !.prover_core = a.prover,
                                     !.macs[g.z + 1] = a.mc]
                 /\ st' = [seen EXCEPT !.pcots = @ + 1,
                                       !.chan = Append(@, [type |-> "bool", val |-> a.d]),
                                       !.sent = Append(@, a.d)]
    /\ UNCHANGED <<keysVars, corr, gen, gfut, efut, netVars>>

\* after the loop: the final check, the hash of the output MACs
PvProverFinish ==
    /\ st.p = "gates"
    /\ FirstGate(st.circ.gates) = <<>>
    /\ LET c  == QsProverCheckAndGates(ev.prover_core, QsVopeAt(0))
           checking == ev.prover_core.check_counter # 0
           core == IF checking THEN c.prover ELSE ev.prover_core
           uv == IF checking THEN <<[type |-> "uv", val |-> <<c.u, c.v>>]>> ELSE <<>>
           output_macs == OutputsOf(ev.macs, st.circ)
           hash == QsProverFinish(core, output_macs)
       IN  /\ ev' = [ev EXCEPT !.prover_core = core]
           /\ st' = [st EXCEPT !.p = "done", !.presult = "Ok",
                               !.chan = @ \o uv \o <<[type |-> "hash", val |-> hash]>>]
    /\ UNCHANGED <<keysVars, corr, gen, gfut, efut, netVars>>

\* Verifier::auth_inputs on the message at the head of the channel
PvVerifierAuthInputs ==
    /\ st.v = "inputs"
    /\ st.chan # <<>>
    /\ LET n    == st.circ.input_len
           m    == RecvBools(Head(st.chan))
           blks == [i \in 1..n |-> SessCotKey(st.vcots + i)]
           r    == QsVerifierAuthInputBits(gen.verifier_core, m.val, blks)
           rest == [st EXCEPT !.chan = Tail(@)]
       IN  IF m.err # "Ok"
           THEN /\ gen' = gen
                /\ st' = [rest EXCEPT !.v = "done", !.vresult = "Err"]
           ELSE IF Len(m.val) # n
           THEN /\ gen' = gen
                /\ st' = [rest EXCEPT !.v = "done", !.vresult = "Panic"]
           ELSE /\ gen' = [gen EXCEPT
                             !.verifier_core = r.verifier,
                             !.keys = [i \in 1..Len(gen.keys) |->
                                         IF i <= n THEN r.keys[i] ELSE gen.keys[i]]]
                /\ st' = [rest EXCEPT !.v = "gates", !.vcots = @ + n]
    /\ UNCHANGED <<keysVars, corr, ev, gfut, efut, netVars>>

\* one turn of the verifier's loop over circ.gates()
PvVerifierGate ==
    /\ st.v = "gates"
    /\ st.vgate <= Len(st.circ.gates)
    /\ LET g   == st.circ.gates[st.vgate]
           x_0 == gen.keys[g.x + 1]
           y_0 == gen.keys[g.y + 1]
       IN  CASE g.op = "Xor" ->
                 /\ gen' = [gen EXCEPT !.keys[g.z + 1] = BXor(x_0, y_0)]
                 /\ st' = [st EXCEPT !.vgate = @ + 1]
             [] g.op = "Inv" ->
                 /\ gen' = [gen EXCEPT !.keys[g.z + 1] =
                              BXor(BXor(x_0, gen.verifier_core.delta), 1)]
                 /\ st' = [st EXCEPT !.vgate = @ + 1]
             [] g.op = "And" ->
                 /\ ~QsEnableCheck(gen.verifier_core)
                 /\ st.chan # <<>>
                 /\ LET m == RecvTyped(Head(st.chan), "bool")
                        a == QsVerifierAuthAndGate(gen.verifier_core, x_0, y_0,
                                                   m.val, SessCotKey(st.vcots + 1))
                        rest == [st EXCEPT !.chan = Tail(@)]
                    IN  IF m.err # "Ok"
                        THEN /\ gen' = gen
                             /\ st' = [rest EXCEPT !.v = "done", !.vresult = "Err"]
                        ELSE /\ gen' = [gen EXCEPT !.verifier_core = a.verifier,
                                                   !.keys[g.z + 1] = a.kc]
                             /\ st' = [rest EXCEPT !.vgate = @ + 1, !.vcots = @ + 1,
                                                   !.used = Append(@, m.val)]
    /\ UNCHANGED <<keysVars, corr, ev, gfut, efut, netVars>>

\* the verifier's final check on the (u, v) at the head of the channel
PvVerifierFinalCheck ==
    /\ st.v = "gates"
    /\ st.vgate > Len(st.circ.gates)
    /\ IF QsEnableFinalCheck(gen.verifier_core)
       THEN /\ st.chan # <<>>
            /\ LET m == RecvTyped(Head(st.chan), "uv")
                   c == SessCheckAndGates(gen, m.err # "Ok",
                                          VopeEval(QsVopeAt(0), gen.verifier_core.delta),
                                          m.val[1], m.val[2])
               IN  /\ gen' = c.verifier
                   /\ st' = [st EXCEPT !.chan = Tail(@),
                                       !.v = IF c.err = "Ok" THEN "hash" ELSE "done",
                                       !.vresult = IF c.err = "Ok" THEN @ ELSE c.err]
       ELSE /\ gen' = gen
            /\ st' = [st EXCEPT !.v = "hash"]
    /\ UNCHANGED <<keysVars, corr, ev, gfut, efut, netVars>>

\* the hash at the head of the channel is compared
PvVerifierFinish ==
    /\ st.v = "hash"
    /\ st.chan # <<>>
    /\ LET m == RecvTyped(Head(st.chan), "hash")
           r == QsVerifierFinish(gen.verifier_core, m.val,
                                 OutputsOf(gen.keys, st.circ), st.output_value)
       IN  IF m.err # "Ok" \/ r.err # "Ok"
           THEN /\ gen' = gen
                /\ st' = [st EXCEPT !.chan = Tail(@), !.v = "done", !.vresult = "Err"]
           ELSE /\ gen' = [gen EXCEPT !.verifier_core = r.verifier]
                /\ st' = [st EXCEPT !.chan = Tail(@), !.v = "done", !.vresult = "Ok"]
    /\ UNCHANGED <<keysVars, corr, ev, gfut, efut, netVars>>

PvNext ==
    \/ PvStart
    \/ PvProverAuthInputs
    \/ PvProverGate
    \/ PvProverFinish
    \/ PvVerifierAuthInputs
    \/ PvVerifierGate
    \/ PvVerifierFinalCheck
    \/ PvVerifierFinish

SpecProve == PvInit /\ [][PvNext]_vars

\* C21: Prover::prove visits each gate of the circuit exactly once, in
\* circuit order, sends exactly and_count AND masks and returns after the
\* final check and the output hash; the i-th mask sent is the one consumed
\* at the verifier's i-th AND gate.
C21_ProveTerminates ==
    st.p \in {"gates", "done"} =>
        /\ \A i \in 1..Len(st.visits) : st.visits[i] <= 1
        /\ \A i \in 2..Len(st.visits) : st.visits[i] = 1 => st.visits[i - 1] = 1
        /\ Len(st.sent) <= AndCount(st.circ)
        /\ Len(st.used) <= Len(st.sent)
        /\ \A i \in 1..Len(st.used) : st.used[i] = st.sent[i]
        /\ st.p = "done" =>
              /\ st.presult = "Ok"
              /\ \A i \in 1..Len(st.visits) : st.visits[i] = 1
              /\ Len(st.sent) = AndCount(st.circ)

\* C23: the input-mask message the prover sends in auth_inputs is the
\* sequence the verifier's auth_inputs expects: one mask per input bit, the
\* i-th being d_i = x_i xor r_i, so that the verifier's length assertion
\* holds for every input length.
C23_InputMasksAgree ==
    /\ st.mask_msg # <<>> =>
          /\ st.mask_msg[1].type = "bools"
          /\ st.mask_msg[1].val = [i \in 1..Len(st.inputs) |->
                                     st.inputs[i] # st.choices[i]]
    /\ st.vresult # "Panic"

-----------------------------------------------------------------------------
(* SpecCancel: the round of test_store_decode over slices of any kind, in   *)
(* which the callers may drop decode futures before their values are sent.  *)
(* Keys and values alternate along the arena.                               *)

CnKeys(slice) ==
    [i \in 1..slice.size |-> IF (slice.ptr + i) % 2 = 0 THEN 2 ELSE 3]

CnValue(slice) == [i \in 1..slice.size |-> (slice.ptr + i) % 2 = 1]

\* gen.alloc; ev.alloc; the assign calls of `kind` on both stores
CnAssign ==
    \E len \in SliceLens : \E kind \in {"Public", "GenPrivate", "EvPrivate"} :
        LET slice == AllocSlice(gen.data_store, len)
            x == CnValue(slice)
            g == GenAssignKind(GenAlloc(gen, CnKeys(slice)), slice, kind, x)
            e == EvAssignKind(EvAlloc(ev, len), slice, kind, x)
        IN  /\ CanAlloc(len)
            /\ g.err = "Ok" /\ e.err = "Ok"
            /\ gen' = g.gen /\ ev' = e.ev
            /\ st' = Assigned3(slice, kind, x)
            /\ UNCHANGED <<keysVars, corr, gfut, efut, netVars>>

\* drop(DecodeFuture) on the k-th future of the generator's caller, any time
\* between decode and the generator's execute_decode
CnDropGen ==
    /\ st.pc \in {"send_key_bits", "receive_key_bits", "ev_execute_decode",
                  "verify_data", "gen_execute_decode"}
    /\ \E k \in 1..Len(gfut) :
        /\ gfut[k] = FutPending
        /\ gfut' = [gfut EXCEPT ![k] = FutCanceled]
    /\ UNCHANGED <<keysVars, corr, gen, ev, st, efut, netVars>>

\* drop(DecodeFuture) on the k-th future of the evaluator's caller, any time
\* between decode and the evaluator's execute_decode
CnDropEv ==
    /\ st.pc \in {"send_key_bits", "receive_key_bits", "ev_execute_decode"}
    /\ \E k \in 1..Len(efut) :
        /\ efut[k] = FutPending
        /\ efut' = [efut EXCEPT ![k] = FutCanceled]
    /\ UNCHANGED <<keysVars, corr, gen, ev, st, gfut, netVars>>

CnNext ==
    \/ CnAssign
    \/ StExecuteAssign
    \/ StReceive
    \/ StDecode
    \/ CnDropGen
    \/ CnDropEv
    \/ StSendKeyBits
    \/ StReceiveKeyBits
    \/ StEvExecuteDecode
    \/ StVerifyData
    \/ StGenExecuteDecode

SpecCancel == StInit /\ [][CnNext]_vars

\* The op that feeds the k-th future is in the buffer
Buffered(buffer, k) == \E i \in 1..Len(buffer) : buffer[i].fut = k

\* What an execute_decode owes the futures `before`: every buffered op whose
\* data is held is sent; a dropped future stays dropped, any other one holds
\* the data of its slice
Settled(before, after, buffer, store) ==
    \A i \in 1..Len(buffer) :
        StoreIsSet(store, buffer[i].slice) =>
            LET k == buffer[i].fut
            IN  IF FutIsCanceled(before[k]) THEN after[k] = before[k]
                ELSE after[k] = FutReady(StoreRead(store, buffer[i].slice))

\* C24: dropping a DecodeFuture before its value is sent does not disturb the
\* round: the op paired with a dropped future stays buffered until
\* execute_decode sends its value, DecodeOp::send on it returns Ok and the
\* value is discarded, execute_decode of either store returns success, and
\* the futures of the round that were not dropped resolve to the data of
\* their slices.
C24_CancelSilent ==
    /\ [](/\ st.pc \in {"send_key_bits", "receive_key_bits", "ev_execute_decode"}
             => \A k \in 1..Len(efut) :
                   FutIsCanceled(efut[k]) => Buffered(ev.buffer_decode, k)
          /\ st.pc \in {"send_key_bits", "receive_key_bits", "ev_execute_decode",
                        "verify_data"}
             => \A k \in 1..Len(gfut) :
                   FutIsCanceled(gfut[k]) => Buffered(gen.buffer_decode, k))
    /\ \A x \in BitSeqs(1) : DecodeSend(FutCanceled, x) = [err |-> "Ok", fut |-> FutCanceled]
    /\ [][/\ (st.pc = "ev_execute_decode" /\ st'.pc = "verify_data")
              => /\ st'.err.ev_execute_decode = "Ok"
                 /\ Settled(efut, efut', ev.buffer_decode, ev.data_store)
          /\ (st.pc = "gen_execute_decode" /\ st'.pc = "done")
              => /\ st'.err.gen_execute_decode = "Ok"
                 /\ Settled(gfut, gfut', gen.buffer_decode, gen.data_store)]_vars

\* Two slices private to the evaluator were decoded by both; each caller
\* dropped one future; the round ended well and the other future of each
\* holds the evaluator's value
C24_Witness ==
    /\ st.pc = "done"
    /\ \A s \in StepNames : st.err[s] = "Ok"
    /\ Len(gfut) = 2 /\ Len(efut) = 2
    /\ FutIsCanceled(gfut[1]) /\ gfut[2] = FutReady(st.vals[2])
    /\ FutIsCanceled(efut[2]) /\ efut[1] = FutReady(st.vals[1])
    /\ gen.buffer_decode = <<>> /\ ev.buffer_decode = <<>>

-----------------------------------------------------------------------------
(* Streaming of a garbled circuit (mpz-garble generator.rs, evaluator.rs):  *)
(* generate feeds EncryptedGateBatch messages, receive_garbled_circuit      *)
(* reads them.  net is the io channel and what the sending party has still  *)
(* to feed, st the call of receive_garbled_circuit.  An encrypted gate is   *)
(* the number of its AND gate, a padding entry is 0.                        *)

\* The entries of an EncryptedGateBatch<N>; 128 in the program
BATCH_SIZE == 2

\* The largest and_count of a circuit
MaxAnd == 5

MaxOutputs == 2

CeilDiv(a, b) == (a + b - 1) \div b

\* The k-th batch of the batched generator: BATCH_SIZE entries, padded after
\* the last AND gate
GateBatch(and_count, k) ==
    [i \in 1..BATCH_SIZE |->
        IF (k - 1) * BATCH_SIZE + i <= and_count
        THEN (k - 1) * BATCH_SIZE + i ELSE 0]

\* Everything the batched generator yields for a circuit
GateBatches(and_count) ==
    [k \in 1..CeilDiv(and_count, BATCH_SIZE) |->
        Msg("EncryptedGateBatch", GateBatch(and_count, k))]

WantsBatchInclusive(gates, gate_count) == Len(gates) <= gate_count

\* while gates.len() < gate_count
WantsBatch(gates, gate_count) == Len(gates) < gate_count

\* gates.truncate(gate_count)
Truncate(gates, n) == SubSeq(gates, 1, IF Len(gates) < n THEN Len(gates) ELSE n)

RgcNew(circ, commitments) ==
    [pc |-> "start", circ |-> circ, commitments |-> commitments,
     gates |-> <<>>, reads |-> 0, result |-> "None", got |-> <<>>]

\* The sending party feeds the batches of the circuit, the commitments when
\* they are asked for (one per output, or one too many), and goes on with
\* the first batch of its next circuit.
RgcInit ==
    /\ \E and_count \in 0..MaxAnd : \E output_len \in 1..MaxOutputs :
       \E commitments \in BOOLEAN : \E n \in {output_len, output_len + 1} :
       \E more \in 0..MaxAnd :
        /\ st = RgcNew([and_count |-> and_count, output_len |-> output_len],
                       commitments)
        /\ LET next == SubSeq(GateBatches(more), 1, IF more = 0 THEN 0 ELSE 1)
           IN  net = [pc |-> "feed", chan |-> <<>>, next |-> next,
                      out |-> GateBatches(and_count)
                              \o (IF commitments THEN <<Msg("Commitments", n)>>
                                  ELSE <<>>)
                              \o next]
    /\ gen = [pc |-> "idle"] /\ ev = [pc |-> "idle"]
    /\ gfut = <<>> /\ efut = <<>>
    /\ pcG = At("idle", "idle") /\ pcE = At("idle", "idle")
    /\ IdleKeys /\ IdleCorr

\* generate: io.feed(batch) for the next batch of gen_iter
RgcFeed ==
    /\ net.out # <<>>
    /\ net' = [net EXCEPT !.chan = Append(net.chan, Head(net.out)),
                          !.out = Tail(net.out)]
    /\ UNCHANGED <<keysVars, corr, storeVars, pcG, pcE>>

\* receive_garbled_circuit from the end of the while loop: truncate, then
\* wait for the commitments or return
RgcAfterLoop(s) ==
    LET t == [s EXCEPT !.gates = Truncate(s.gates, s.circ.and_count)]
    IN  IF s.commitments THEN [t EXCEPT !.pc = "commitments"]
        ELSE [t EXCEPT !.pc = "done", !.result = "Ok"]

\* receive_garbled_circuit up to its first await
RgcStart ==
    /\ st.pc = "start"
    /\ st' = IF WantsBatch(st.gates, st.circ.and_count)
             THEN [st EXCEPT !.pc = "batch"]
             ELSE RgcAfterLoop(st)
    /\ UNCHANGED <<keysVars, corr, gen, ev, gfut, efut, netVars>>

\* let batch: EncryptedGateBatch = expect_next().await?;
\* gates.extend_from_slice(&batch.into_array()); and on to the next await
RgcReadBatch ==
    /\ st.pc = "batch"
    /\ net.chan # <<>>
    /\ net' = [net EXCEPT !.chan = Tail(net.chan)]
    /\ LET msg == Head(net.chan)
           s   == [st EXCEPT !.gates = st.gates \o msg.body,
                             !.reads = st.reads + 1]
       IN  st' = IF msg.type # "EncryptedGateBatch"
                 THEN [st EXCEPT !.pc = "done", !.result = "Io"]
                 ELSE IF WantsBatch(s.gates, s.circ.and_count) THEN s
                 ELSE RgcAfterLoop(s)
    /\ UNCHANGED <<keysVars, corr, gen, ev, gfut, efut, pcG, pcE>>

\* let commitments: Vec<_> = expect_next().await?; and the length check
RgcReadCommitments ==
    /\ st.pc = "commitments"
    /\ net.chan # <<>>
    /\ net' = [net EXCEPT !.chan = Tail(net.chan)]
    /\ LET msg == Head(net.chan)
       IN  st' = IF msg.type # "Commitments"
                 THEN [st EXCEPT !.pc = "done", !.result = "Io"]
                 ELSE IF msg.body # st.circ.output_len
                 THEN [st EXCEPT !.pc = "done", !.result = "Generator"]
                 ELSE [st EXCEPT !.pc = "done", !.result = "Ok",
                                 !.got = <<msg.body>>]
    /\ UNCHANGED <<keysVars, corr, gen, ev, gfut, efut, pcG, pcE>>

RgcNext ==
    \/ RgcFeed
    \/ RgcStart
    \/ RgcReadBatch
    \/ RgcReadCommitments

SpecBatch == RgcInit /\ [][RgcNext]_vars

\* C28: receive_garbled_circuit never reads more than
\* ceil(and_count / BATCH_SIZE) batches; once its loop is over it has read
\* exactly that many, none when and_count = 0; the batches that follow on the
\* channel are left there; and the gates it returns are the and_count gates
\* of the circuit in order, without the padding of the last batch.
C28_BatchHandshake ==
    LET n == st.circ.and_count
        need == CeilDiv(n, BATCH_SIZE)
    IN  /\ st.reads <= need
        /\ st.pc = "batch" => st.reads < need
        /\ st.pc \in {"commitments", "done"} =>
              /\ st.reads = need
              /\ n = 0 => st.reads = 0
              /\ st.gates = [i \in 1..n |-> i]
              /\ \A i \in 1..Len(st.gates) : st.gates[i] # 0
        /\ (st.pc = "done" /\ net.out = <<>>) => net.chan = net.next
        /\ st.pc = "done" => st.result # "Io"

\* A circuit whose last batch is padded was received over two batches or
\* more, and the first batch of the next circuit is still on the channel
C28_Witness ==
    /\ st.pc = "done" /\ st.result = "Ok"
    /\ st.circ.and_count % BATCH_SIZE # 0
    /\ st.reads >= 2
    /\ Len(st.gates) = st.circ.and_count
    /\ net.out = <<>>
    /\ net.chan # <<>> /\ net.chan[1].type = "EncryptedGateBatch"

-----------------------------------------------------------------------------
(* ProverStore and VerifierStore (mpz-zk-core/src/store) *)

\* ops.sort_by_key(|op| op.slice.ptr()) : a stable sort
RECURSIVE InsertByPtr(_, _)
InsertByPtr(sorted, op) ==
    IF sorted = <<>> THEN <<op>>
    ELSE IF op.slice.ptr < Head(sorted).slice.ptr THEN <<op>> \o sorted
    ELSE <<Head(sorted)>> \o InsertByPtr(Tail(sorted), op)

RECURSIVE SortByPtr(_)
SortByPtr(ops) ==
    IF ops = <<>> THEN <<>>
    ELSE InsertByPtr(SortByPtr(SubSeq(ops, 1, Len(ops) - 1)), ops[Len(ops)])

\* ProverStore::default
PsNew ==
    [mac_store |-> MsNew, mask_store |-> StoreNew, data_store |-> StoreNew,
     buffer_assign |-> <<>>, buffer_decode |-> <<>>]

\* ProverStore::alloc_with
PsAllocWith(p, masks, macs) ==
    [p EXCEPT !.mac_store = MsAllocWith(p.mac_store, macs),
              !.mask_store = StoreAllocWith(p.mask_store, masks),
              !.data_store = StoreAlloc(p.data_store, Len(masks), FALSE)]

\* ProverStore::assign_public / assign_private
PsAssignData(p, slice, data, kind) ==
    LET r == StoreTrySet(p.data_store, slice, data)
    IN  IF r.err # "Ok" THEN [err |-> "Panic", ps |-> p]
        ELSE [err |-> "Ok",
              ps |-> [p EXCEPT !.data_store = r.store,
                               !.buffer_assign = Append(p.buffer_assign,
                                                     AssignOp(slice, kind))]]

\* ProverStore::decode
PsDecode(p, slice, fut) ==
    [p EXCEPT !.buffer_decode = Append(p.buffer_decode, DecodeOp(slice, fut))]

\* The adjust bits of ProverStore::execute_assign: the data of the Private
\* ops, in the order of the sorted ops
RECURSIVE PsAdjustBits(_, _)
PsAdjustBits(store, ops) ==
    IF ops = <<>> THEN <<>>
    ELSE (IF Head(ops).kind = "Private"
          THEN StoreRead(store, Head(ops).slice) ELSE <<>>)
         \o PsAdjustBits(store, Tail(ops))

\* ProverStore::execute_assign
PsExecuteAssign(p) ==
    LET ops == SortByPtr(p.buffer_assign)
    IN  [err |-> "Ok",
         ps  |-> [p EXCEPT !.buffer_assign = <<>>],
         payload |-> [idx    |-> ToRangeSet(SlicesOf(ops)),
                      adjust |-> PsAdjustBits(p.data_store, ops)]]

\* ProverStore::execute_decode
PsExecuteDecode(p, futs) ==
    LET Ready(op) == StoreTryGet(p.data_store, op.slice).err = "Ok"
        ops == SelectSeq(p.buffer_decode, Ready)
        idx == ToRangeSet(SlicesOf(ops))
        pr  == MsProve(p.mac_store, idx)
        p1  == [p EXCEPT !.buffer_decode =
                            SelectSeq(p.buffer_decode, LAMBDA op : ~Ready(op))]
        f1  == Resolve(futs, ops, p.data_store)
    IN  IF pr.err # "Ok" \/ SendAll(futs, ops, p.data_store) # "Ok"
        THEN [err |-> "Panic", ps |-> p1, futs |-> f1, payload |-> NoMacPayload]
        ELSE [err |-> "Ok", ps |-> p1, futs |-> f1,
              payload |-> [idx |-> idx, bits |-> pr.bits, proof |-> pr.proof]]

\* VerifierStore::new
VsNew(delta) ==
    [key_store |-> KsNew(delta), data_store |-> StoreNew,
     buffer_assign |-> <<>>, buffer_decode |-> <<>>]

\* VerifierStore::alloc_with
VsAllocWith(v, keys) ==
    [v EXCEPT !.key_store = KsAllocWith(v.key_store, keys),
              !.data_store = StoreAlloc(v.data_store, Len(keys), FALSE)]

\* VerifierStore::assign_public
VsAssignPublic(v, slice, data) ==
    LET r == StoreTrySet(v.data_store, slice, data)
    IN  IF r.err # "Ok" THEN [err |-> "Panic", vs |-> v]
        ELSE [err |-> "Ok",
              vs |-> [v EXCEPT !.data_store = r.store,
                               !.buffer_assign = Append(v.buffer_assign,
                                                     AssignOp(slice, "Public"))]]

\* VerifierStore::assign_blind
VsAssignBlind(v, slice) ==
    [v EXCEPT !.buffer_assign = Append(v.buffer_assign, AssignOp(slice, "Blind"))]

\* VerifierStore::decode
VsDecode(v, slice, fut) ==
    [v EXCEPT !.buffer_decode = Append(v.buffer_decode, DecodeOp(slice, fut))]

\* The loop of VerifierStore::execute_assign:
\* key_store.adjust(slice, &adjust[i..i + slice.size()])?; i += slice.size()
RECURSIVE VsAdjustLoop(_, _, _, _)
VsAdjustLoop(k, ranges, adjust, i) ==
    IF ranges = <<>> THEN [err |-> "Ok", ks |-> k]
    ELSE LET slice == FromRange(Head(ranges))
         IN  IF i + slice.size > Len(adjust) THEN [err |-> "Panic", ks |-> k]
             ELSE LET r == KsAdjust(k, slice,
                               SubSeq(adjust, i + 1, i + slice.size))
                  IN  IF r.err # "Ok" THEN [err |-> "Panic", ks |-> r.ks]
                      ELSE VsAdjustLoop(r.ks, Tail(ranges), adjust,
                                        i + slice.size)

\* VerifierStore::execute_assign
VsExecuteAssign(v, payload) ==
    LET ops == SortByPtr(v.buffer_assign)
        idx_expected == ToRangeSet(SlicesOf(ops))
        v1  == [v EXCEPT !.buffer_assign = <<>>]
        r   == VsAdjustLoop(v.key_store, IterRanges(payload.idx),
                            payload.adjust, 0)
    IN  IF payload.idx # idx_expected THEN [err |-> "Panic", vs |-> v1]
        ELSE [err |-> r.err, vs |-> [v1 EXCEPT !.key_store = r.ks]]

\* The loop of VerifierStore::verify_data: data_store.try_set(slice, &bits)?
\* for every range of idx, each time with all the bits
RECURSIVE VsSetLoop(_, _, _)
VsSetLoop(store, ranges, bits) ==
    IF ranges = <<>> THEN [err |-> "Ok", store |-> store]
    ELSE LET r == StoreTrySet(store, FromRange(Head(ranges)), bits)
         IN  IF r.err # "Ok" THEN [err |-> "Panic", store |-> r.store]
             ELSE VsSetLoop(r.store, Tail(ranges), bits)

\* VerifierStore::verify_data
VsVerifyData(v, payload) ==
    LET k == KsVerify(v.key_store, payload.idx, payload.bits, payload.proof)
        t == VsSetLoop(v.data_store, IterRanges(payload.idx), k.bits)
    IN  IF k.err # "Ok" THEN [err |-> "Panic", vs |-> v]
        ELSE [err |-> t.err, vs |-> [v EXCEPT !.data_store = t.store]]

\* VerifierStore::execute_decode
VsExecuteDecode(v, futs) ==
    LET Ready(op) == StoreIsSet(v.data_store, op.slice)
        ops == SelectSeq(v.buffer_decode, Ready)
    IN  [err  |-> SendAll(futs, ops, v.data_store),
         vs   |-> [v EXCEPT !.buffer_decode =
                              SelectSeq(v.buffer_decode, LAMBDA op : ~Ready(op))],
         futs |-> Resolve(futs, ops, v.data_store)]

-----------------------------------------------------------------------------
(* SpecZkStore: the round of test_store (mpz-zk-core/src/store.rs).  gen is *)
(* the VerifierStore, ev the ProverStore; keys, masks and MACs come from a  *)
(* random COT; one or two slices are allocated on both stores and assigned  *)
(* Public on both, or Private by the prover and Blind by the verifier.  A   *)
(* call that panics ends the run.                                           *)

ZsSteps == {"prover_execute_assign", "verifier_execute_assign",
            "prover_execute_decode", "verify_data", "verifier_execute_decode"}

ZsSlices == 2

ZsNew ==
    [pc |-> "assign", slices |-> <<>>, kinds |-> <<>>, vals |-> <<>>,
     err |-> [s \in ZsSteps |-> "None"],
     payload |-> [idx |-> {}, adjust |-> <<>>], mac |-> NoMacPayload]

ZsInit ==
    /\ \E v \in Block : gen = VsNew(DeltaNew(v))
    /\ ev = PsNew
    /\ st = ZsNew
    /\ gfut = <<>> /\ efut = <<>>
    /\ IdleKeys /\ IdleCorr /\ IdleNet

\* A step that returned r.err moves on to `pc`, or ends the run on a panic
ZsAfter(step, err, pc) ==
    [st EXCEPT !.pc = IF err = "Ok" THEN pc ELSE "aborted", !.err[step] = err]

ZsCanAlloc(len) ==
    /\ st.pc = "assign"
    /\ Len(st.slices) < ZsSlices
    /\ StoreLen(gen.data_store) + len <= MaxArena

\* verifier.alloc_with(keys); prover.alloc_with(masks, macs);
\* verifier.assign_public(ref, val); prover.assign_public(ref, val)
ZsAssignPublic ==
    \E len \in SliceLens : \E keys \in UniformKeys(len) :
    \E masks \in BitSeqs(len) : \E x \in UniformBits(len) :
        LET slice == AllocSlice(gen.data_store, len)
            macs == CotCorrelated(gen.key_store.delta, keys, masks)
            v == VsAssignPublic(VsAllocWith(gen, keys), slice, x)
            p == PsAssignData(PsAllocWith(ev, masks, macs), slice, x, "Public")
        IN  /\ ZsCanAlloc(len)
            /\ v.err = "Ok" /\ p.err = "Ok"
            /\ gen' = v.vs /\ ev' = p.ps
            /\ st' = Assigned3(slice, "Public", x)
            /\ UNCHANGED <<keysVars, corr, gfut, efut, netVars>>

\* verifier.alloc_with(keys); prover.alloc_with(masks, macs);
\* verifier.assign_blind(ref); prover.assign_private(ref, val)
ZsAssignPrivate ==
    \E len \in SliceLens : \E keys \in UniformKeys(len) :
    \E masks \in BitSeqs(len) : \E x \in UniformBits(len) :
        LET slice == AllocSlice(gen.data_store, len)
            macs == CotCorrelated(gen.key_store.delta, keys, masks)
            p == PsAssignData(PsAllocWith(ev, masks, macs), slice, x, "Private")
        IN  /\ ZsCanAlloc(len)
            /\ p.err = "Ok"
            /\ gen' = VsAssignBlind(VsAllocWith(gen, keys), slice)
            /\ ev' = p.ps
            /\ st' = Assigned3(slice, "Private", x)
            /\ UNCHANGED <<keysVars, corr, gfut, efut, netVars>>

\* let payload = prover.execute_assign().unwrap()
ZsProverExecuteAssign ==
    LET r == PsExecuteAssign(ev)
    IN  /\ st.pc = "assign" /\ st.slices # <<>>
        /\ ev' = r.ps
        /\ st' = [ZsAfter("prover_execute_assign", r.err, "verifier_execute_assign")
                    EXCEPT !.payload = r.payload]
        /\ UNCHANGED <<keysVars, corr, gen, gfut, efut, netVars>>

\* verifier.execute_assign(payload).unwrap()
ZsVerifierExecuteAssign ==
    LET r == VsExecuteAssign(gen, st.payload)
    IN  /\ st.pc = "verifier_execute_assign"
        /\ gen' = r.vs
        /\ st' = ZsAfter("verifier_execute_assign", r.err, "decode")
        /\ UNCHANGED <<keysVars, corr, ev, gfut, efut, netVars>>

RECURSIVE VsDecodeAll(_, _, _)
VsDecodeAll(v, slices, k) ==
    IF k > Len(slices) THEN v
    ELSE VsDecodeAll(VsDecode(v, slices[k], k), slices, k + 1)

RECURSIVE PsDecodeAll(_, _, _)
PsDecodeAll(p, slices, k) ==
    IF k > Len(slices) THEN p
    ELSE PsDecodeAll(PsDecode(p, slices[k], k), slices, k + 1)

\* verifier.decode on every slice, the futures are kept;
\* `let _ = prover.decode(..)` on every slice, the futures are dropped
ZsDecode ==
    /\ st.pc = "decode"
    /\ gen' = VsDecodeAll(gen, st.slices, 1)
    /\ ev' = PsDecodeAll(ev, st.slices, 1)
    /\ gfut' = [k \in 1..Len(st.slices) |-> FutPending]
    /\ efut' = [k \in 1..Len(st.slices) |-> FutCanceled]
    /\ st' = [st EXCEPT !.pc = "prover_execute_decode"]
    /\ UNCHANGED <<keysVars, corr, netVars>>

\* let payload = prover.execute_decode().unwrap()
ZsProverExecuteDecode ==
    LET r == PsExecuteDecode(ev, efut)
    IN  /\ st.pc = "prover_execute_decode"
        /\ ev' = r.ps
        /\ efut' = r.futs
        /\ st' = [ZsAfter("prover_execute_decode", r.err, "verify_data")
                    EXCEPT !.mac = r.payload]
        /\ UNCHANGED <<keysVars, corr, gen, gfut, netVars>>

\* verifier.verify_data(payload).unwrap()
ZsVerifyData ==
    LET r == VsVerifyData(gen, st.mac)
    IN  /\ st.pc = "verify_data"
        /\ gen' = r.vs
        /\ st' = ZsAfter("verify_data", r.err, "verifier_execute_decode")
        /\ UNCHANGED <<keysVars, corr, ev, gfut, efut, netVars>>

\* verifier.execute_decode().unwrap()
ZsVerifierExecuteDecode ==
    LET r == VsExecuteDecode(gen, gfut)
    IN  /\ st.pc = "verifier_execute_decode"
        /\ gen' = r.vs
        /\ gfut' = r.futs
        /\ st' = ZsAfter("verifier_execute_decode", r.err, "done")
        /\ UNCHANGED <<keysVars, corr, ev, efut, netVars>>

ZsNext ==
    \/ ZsAssignPublic
    \/ ZsAssignPrivate
    \/ ZsProverExecuteAssign
    \/ ZsVerifierExecuteAssign
    \/ ZsDecode
    \/ ZsProverExecuteDecode
    \/ ZsVerifyData
    \/ ZsVerifierExecuteDecode

SpecZkStore == ZsInit /\ [][ZsNext]_vars

\* C22: in the round of test_store over one slice assigned Public on both
\* stores and one slice assigned Private by the prover and Blind by the
\* verifier, every step succeeds, and at the end the verifier's decode
\* futures hold the public value and the prover's private value.
C22_ZkStoreRound ==
    (Len(st.kinds) = 2 /\ st.kinds[1] = "Public" /\ st.kinds[2] = "Private") =>
        /\ st.pc # "aborted"
        /\ \A s \in ZsSteps : st.err[s] \in {"None", "Ok"}
        /\ st.pc = "done" =>
              \A k \in 1..2 : gfut[k] = FutReady(st.vals[k])

-----------------------------------------------------------------------------
(* Consecutive check windows of the streaming engine.  gen is the Verifier, *)
(* ev the Prover; a circuit is run whole (execute, the adjust-bit loop and  *)
(* finish on both sides) and a check may follow any number of runs, as in   *)
(* benches/zk.rs.                                                           *)

\* Circuits of the runs: two without AND gates, one AND gate, two AND gates
WinCircuits ==
    {Circuit(2, <<GXor(0, 1, 2), GInv(2, 3)>>, 3),
     Circuit(2, <<GInv(0, 2)>>, 2),
     Circuit(2, <<GAnd(0, 1, 2)>>, 2),
     Circuit(2, <<GAnd(0, 1, 2), GXor(2, 0, 3), GAnd(3, 1, 4)>>, 4)}

\* Runs of a behaviour, and check windows of a behaviour
WinMaxRuns == 3
WinMaxWindows == 2

\* Keys of the input wires and of the AND gates, masks of the AND gates
WinInputKeys == <<2, 0>>
WinGateKeys(n, k) == [i \in 1..n |-> IF (i + k) % 2 = 1 THEN 2 ELSE 3]
WinGateMasks(n, k) == [i \in 1..n |-> (i + k) % 2 = 0]

\* for adjust in prover_iter.by_ref() { verifier_consumer.next(adjust) } :
\* the loop ends with the call of next() that returns None
RECURSIVE WinLoop(_, _, _)
WinLoop(p, v, bits) ==
    LET r == ProverIterNext(p)
    IN  IF HasGates(p.iter)
        THEN WinLoop(r.prover, VerifierNext(v, r.item), Append(bits, r.item))
        ELSE [prover |-> r.prover, verifier |-> v, bits |-> bits]

\* assert_eq!(self.next(), None) of ProverIter::finish holds when no AND gate
\* is left
RestFree(it) == \A i \in it.gate..Len(it.circ.gates) : it.circ.gates[i].op # "And"

WinNew(x) ==
    [pc |-> "execute", inputs |-> x, runs |-> 0, and_gates |-> 0, log |-> <<>>,
     circ |-> Circuit(0, <<>>, 0), bits |-> <<>>, loop_complete |-> FALSE,
     output_macs |-> <<>>, output_keys |-> <<>>, err |-> "Ok", assert_ok |-> TRUE,
     adjust |-> <<>>, chis_p |-> <<>>, chis_v |-> <<>>, u |-> 0, v |-> 0, w |-> 0]

WinInit ==
    /\ \E v \in Block : gen = VerifierNew(DeltaNew(v))
    /\ ev = ProverNew
    /\ \E x \in UniformBits(2) : st = WinNew(x)
    /\ gfut = <<>> /\ efut = <<>>
    /\ IdleKeys /\ IdleCorr /\ IdleNet

\* One run of a circuit: execute on both sides, the adjust-bit loop, finish
WinRun ==
    /\ st.pc = "execute"
    /\ st.runs < WinMaxRuns
    /\ \E circ \in WinCircuits :
        LET n == AndCount(circ)
            delta == gen.delta
            gate_keys == WinGateKeys(n, st.and_gates)
            gate_masks == WinGateMasks(n, st.and_gates)
            input_macs == [i \in 1..2 |-> MacOf(WinInputKeys[i], st.inputs[i], delta)]
            gate_macs == [i \in 1..n |-> MacOf(gate_keys[i], gate_masks[i], delta)]
            p0 == ProverExecute(ev, circ, input_macs, gate_masks, gate_macs).prover
            v0 == VerifierExecute(gen, circ, WinInputKeys, gate_keys).verifier
            l == WinLoop(p0, v0, <<>>)
            pf == ProverIterFinish(l.prover)
            vf == VerifierFinish(l.verifier)
        IN  /\ ev' = pf.prover /\ gen' = vf.verifier
            /\ st' = [st EXCEPT !.runs = @ + 1, !.and_gates = @ + n,
                                !.circ = circ, !.bits = l.bits,
                                !.loop_complete = l.prover.iter.complete,
                                !.assert_ok = (l.prover.iter.complete
                                               \/ RestFree(l.prover.iter)),
                                !.output_macs = pf.outputs,
                                !.output_keys = vf.outputs,
                                !.err = IF pf.err = "Ok" THEN vf.err ELSE pf.err]
    /\ UNCHANGED <<keysVars, corr, gfut, efut, netVars>>

\* prover.check(mask_u, mask_v) and verifier.check(mask_w): the window's
\* adjust bits, coefficients and terms are logged by WinVerify
WinCheck ==
    /\ st.pc = "execute"
    /\ Len(st.log) < WinMaxWindows
    /\ \E m \in {<<0, 0>>, <<1, 2>>} :
        LET p == ProverCheck(ev, m[1], m[2])
            v == VerifierCheck(gen, BXor(m[1], GfMul(gen.delta, m[2])))
        IN  /\ ev' = p.prover /\ gen' = v.verifier
            /\ st' = [st EXCEPT
                  !.pc = "verify", !.u = p.u, !.v = p.v, !.w = v.w,
                  !.adjust = ev.check.adjust,
                  !.chis_p = Chis(HashBlock(ev.check.transcript
                                            \o RawSlice(ev.check.adjust)),
                                  Len(ev.check.terms)),
                  !.chis_v = Chis(HashBlock(gen.check.transcript
                                            \o RawSlice(gen.check.adjust)),
                                  Len(gen.check.terms))]
    /\ UNCHANGED <<keysVars, corr, gfut, efut, netVars>>

\* Verify::verify(u, v) on the prover's terms
WinVerify ==
    /\ st.pc = "verify"
    /\ gen' = VerifyVerify(gen, st.w, st.u, st.v).verifier
    /\ st' = [st EXCEPT !.pc = "execute",
                        !.log = Append(@, [runs |-> st.runs, adjust |-> st.adjust,
                                           u |-> st.u, v |-> st.v,
                                           chis_p |-> st.chis_p, chis_v |-> st.chis_v])]
    /\ UNCHANGED <<keysVars, corr, ev, gfut, efut, netVars>>

WinNext ==
    \/ WinRun
    \/ WinCheck
    \/ WinVerify

SpecWin == WinInit /\ [][WinNext]_vars

\* C31: in every check window the i-th triple (from 0) is weighted with
\* chi^(i+1), and the prover and the verifier use the same list.
C31_ChiPowers ==
    \A k \in 1..Len(st.log) :
        LET w == st.log[k]
        IN  /\ w.chis_p = w.chis_v
            /\ Len(w.chis_p) > 0 => w.chis_p = Powers(w.chis_p[1], Len(w.chis_p))

\* The bytes a window leaves in the transcript: adjust bits, then U, then V
WinBytes(w) == RawSlice(w.adjust) \o ToBytes(w.u) \o ToBytes(w.v)

\* The transcript after the windows 1..k of the log
RECURSIVE WinTranscript(_, _)
WinTranscript(log, k) ==
    IF k = 0 THEN <<>> ELSE WinTranscript(log, k - 1) \o WinBytes(log[k])

\* wants_check
WantsCheck(c) == c.terms # <<>>

\* C32: after Prover::check, and after Verifier::check followed by
\* Verify::verify, wants_check() is false and the triple and adjust buffers
\* are empty; both transcripts hold, window after window, the adjust bits and
\* then U and V, and the chi of every window is on both sides the hash of
\* the bytes of all earlier windows followed by the window's adjust bits.
C32_WindowFlush ==
    /\ st.pc = "verify" =>
          /\ ~WantsCheck(ev.check)
          /\ ev.check.terms = <<>> /\ ev.check.adjust = <<>>
          /\ ev.check.transcript
                = WinTranscript(st.log, Len(st.log))
                    \o RawSlice(st.adjust) \o ToBytes(st.u) \o ToBytes(st.v)
    /\ (st.pc = "execute" /\ st.log # <<>> /\ st.runs = st.log[Len(st.log)].runs) =>
          /\ ~WantsCheck(ev.check) /\ ~WantsCheck(gen.check)
          /\ ev.check.terms = <<>> /\ ev.check.adjust = <<>>
          /\ gen.check.terms = <<>> /\ gen.check.adjust = <<>>
    /\ st.pc = "execute" =>
          /\ ev.check.transcript = WinTranscript(st.log, Len(st.log))
          /\ gen.check.transcript = WinTranscript(st.log, Len(st.log))
    /\ \A k \in 1..Len(st.log) :
          LET w == st.log[k]
              chi == HashBlock(WinTranscript(st.log, k - 1) \o RawSlice(w.adjust))
          IN  /\ Len(w.chis_p) = Len(w.adjust)
              /\ w.chis_p = w.chis_v
              /\ w.chis_p # <<>> => w.chis_p[1] = chi

\* Two windows have been flushed, the second over at least one AND triple
C32_Witness ==
    /\ st.pc = "execute"
    /\ Len(st.log) >= 2
    /\ st.log[1].adjust # <<>>
    /\ st.log[2].adjust # <<>>
    /\ st.runs = st.log[2].runs

\* C35: for a circuit with only XOR and INV gates has_gates() and
\* wants_gates() are false from execute on, the prover's iterator yields no
\* adjust bit, and finish on both sides has passed every gate once, written
\* every gate's output and returns one label per circuit output, with no
\* assertion failing.
C35_ZeroAnd ==
    (st.runs > 0 /\ st.pc = "execute" /\ AndCount(st.circ) = 0) =>
        /\ ~HasGates(IterNew(st.circ))
        /\ ~HasGates(ev.iter) /\ ~HasGates(gen.iter)
        /\ st.bits = <<>>
        /\ st.err = "Ok" /\ st.assert_ok
        /\ ev.iter.gate = Len(st.circ.gates) + 1
        /\ gen.iter.gate = Len(st.circ.gates) + 1
        /\ gen.iter.complete
        /\ \A i \in 1..Len(st.circ.gates) :
              LET g == st.circ.gates[i]
              IN  /\ g.op = "Xor" =>
                        /\ ev.buffer[g.z + 1] = BXor(ev.buffer[g.x + 1], ev.buffer[g.y + 1])
                        /\ gen.buffer[g.z + 1] = BXor(gen.buffer[g.x + 1], gen.buffer[g.y + 1])
                  /\ g.op = "Inv" =>
                        /\ ev.buffer[g.z + 1] = XorLsb(ev.buffer[g.x + 1], TRUE)
                        /\ gen.buffer[g.z + 1] = gen.buffer[g.x + 1]
        /\ Len(st.output_macs) = Len(st.circ.outputs)
        /\ Len(st.output_keys) = Len(st.circ.outputs)
        /\ \A i \in 1..Len(st.circ.outputs) :
              /\ st.output_macs[i] = ev.buffer[st.circ.outputs[i] + 1]
              /\ st.output_keys[i] = gen.buffer[st.circ.outputs[i] + 1]

\* A circuit of an XOR and an INV gate has been run after a circuit with
\* AND gates
C35_Witness ==
    /\ st.pc = "execute"
    /\ st.runs > 1
    /\ st.and_gates > 0
    /\ AndCount(st.circ) = 0
    /\ Len(st.circ.gates) = 2
    /\ Len(st.output_keys) = 1

\* C33: given random COTs with M = K xor r*Delta and LSB(Delta) = 1, the
\* labels of the QuickSilver core satisfy M' = K' xor x*Delta with
\* LSB(M') = x and LSB(K') = 0, for the inputs (mask d = x xor r,
\* K' = K xor d*Delta with the pointer bit cleared) and for the AND gates
\* (x = LSB(M_a) and LSB(M_b), mask d = x xor s, K_z = B xor d*Delta with the
\* pointer bit cleared).
C33_LabelRelation ==
    st.pc \in {"gates", "panic", "finished"} =>
        /\ Lsb(gen.delta)
        /\ \A i \in 1..Len(st.inputs) :
              /\ st.macs[i] = MacOf(st.keys[i], st.inputs[i], gen.delta)
              /\ Lsb(st.macs[i]) = st.inputs[i]
              /\ ~Lsb(st.keys[i])
        /\ st.gates >= 1 =>
              LET g == st.gates - 1
                  x == Lsb(st.macs[QsLeft(g)]) /\ Lsb(st.macs[QsRight(g)])
                  s == (g % st.period) = 0
                  d == (x # s)
                  c == ev.check_counter
              IN  /\ st.out_mac = MacOf(st.out_key, x, gen.delta)
                  /\ Lsb(st.out_mac) = x
                  /\ ~Lsb(st.out_key)
                  /\ st.out_key = SetLsb(BXor(QsCotKey(g),
                                              IF d THEN gen.delta ELSE BlockZERO), FALSE)
                  /\ (c >= 1 /\ st.pc = "gates") =>
                        /\ ev.buf_hash[c] = d /\ gen.buf_hash[c] = d
                        /\ ev.buf_out[c] = st.out_mac /\ gen.buf_out[c] = st.out_key

\* an AND gate over two set wires whose mask bit is set
C33_Witness ==
    /\ st.pc = "gates"
    /\ st.gates >= 2
    /\ ev.check_counter >= 1
    /\ Lsb(st.out_mac)
    /\ ev.buf_hash[ev.check_counter]
    /\ \E i \in 1..Len(st.inputs) : ~st.inputs[i]
-----------------------------------------------------------------------------
(* The ideal VOPE functionality (mpz-zk-core/src/ideal/vope.rs).  gen is    *)
(* the IdealVOPE, st the outputs of its last call.                          *)

\* Degrees asked of the functionality, and calls of a behaviour
VopeMaxDegree == 2
VopeMaxCalls == 2

\* x^n by repeated multiplication, x^0 = 1
RECURSIVE GfPow(_, _)
GfPow(x, n) == IF n = 0 THEN 1 ELSE GfMul(x, GfPow(x, n - 1))

\* poly_check : the fold of x xor delta * acc over the reversed coefficients
RECURSIVE PolyFold(_, _)
PolyFold(a, delta) ==
    IF a = <<>> THEN BlockZERO ELSE BXor(Head(a), GfMul(delta, PolyFold(Tail(a), delta)))

PolyCheck(a, b, delta) == b = PolyFold(a, delta)

\* IdealVOPE::new
IdealVopeNew(delta) == [delta |-> delta, transfer_id |-> 0, counter |-> 0]

\* IdealVOPE::random_correlated, with the blocks the PRG yields
VopeRandomCorrelated(f, degree, coeff) ==
    LET powers == Powers(f.delta, degree + 1)
        eval == InnPrdtRed(coeff, powers)
    IN  [vope |-> [f EXCEPT !.counter = @ + 1, !.transfer_id = @ + 1],
         sender |-> [id |-> f.transfer_id, eval |-> eval],
         receiver |-> [id |-> f.transfer_id, coeff |-> coeff]]

VopeInit ==
    /\ \E d \in Block : gen = IdealVopeNew(d)
    /\ ev = [pc |-> "idle"]
    /\ st = [degree |-> 0, delta |-> BlockZERO,
             sender |-> [id |-> 0, eval |-> BlockZERO],
             receiver |-> [id |-> 0, coeff |-> <<>>]]
    /\ gfut = <<>> /\ efut = <<>>
    /\ IdleKeys /\ IdleCorr /\ IdleNet

\* ideal.random_correlated(degree)
VopeCall ==
    /\ gen.counter < VopeMaxCalls
    /\ \E degree \in 0..VopeMaxDegree : \E coeff \in BlockSeqs(degree + 1) :
        LET r == VopeRandomCorrelated(gen, degree, coeff)
        IN  /\ gen' = r.vope
            /\ st' = [degree |-> degree, delta |-> gen.delta,
                      sender |-> r.sender, receiver |-> r.receiver]
    /\ UNCHANGED <<keysVars, corr, ev, gfut, efut, netVars>>

\* IdealVOPE::set_delta
VopeSetDelta ==
    /\ \E d \in Block : d # gen.delta /\ gen' = [gen EXCEPT !.delta = d]
    /\ UNCHANGED <<keysVars, corr, ev, st, gfut, efut, netVars>>

VopeNext == VopeCall \/ VopeSetDelta

SpecVope == VopeInit /\ [][VopeNext]_vars

\* C34: random_correlated(d) returns d + 1 coefficients and an evaluation
\* with eval = XOR over i = 0..d of coeff_i * Delta^i, the relation
\* poly_check tests, for every degree and every Delta, with
\* powers(x, n) = [x^1, ..., x^n].
C34_VopeRelation ==
    gen.counter > 0 =>
        LET coeff == st.receiver.coeff
            eval == st.sender.eval
        IN  /\ Len(coeff) = st.degree + 1
            /\ eval = XorAll([i \in 1..Len(coeff) |->
                                GfMul(coeff[i], GfPow(st.delta, i - 1))])
            /\ PolyCheck(coeff, eval, st.delta)
-----------------------------------------------------------------------------
(* SpecChain: call stacks with chained calls.  Both parties allocate two    *)
(* one-bit inputs and push the same calls, each on an earlier slice (an     *)
(* input or the output of an earlier call) and the second input; both or    *)
(* neither preprocess; the inputs are assigned and both call sync.  st logs *)
(* the calls each loop iteration handles, by the pointer of their output.   *)

\* Calls of a behaviour
ChMaxCalls == 3

ChX == SliceNew(0, 1)
ChY == SliceNew(1, 1)

\* Output keys of the calls garbled in one loop iteration
ChKzs(calls) == [i \in 1..Len(calls) |-> IF calls[i].output.ptr % 2 = 0 THEN 2 ELSE 3]

OutputsOfCalls(calls) == {calls[i].output.ptr : i \in 1..Len(calls)}

ChNew ==
    [pc |-> "alloc", pre |-> FALSE, calls |-> <<>>, vals |-> <<>>,
     pre_g |-> <<>>, pre_e |-> <<>>, exe_g |-> <<>>, exe_e |-> <<>>]

\* The loop of Generator::preprocess / Generator::execute: preprocess goes on
\* until call_stack is empty, execute also breaks when no call is ready
RECURSIVE GenLoop(_, _, _, _)
GenLoop(g, fn, sent, rounds) ==
    LET Ready(c) == IF fn = "preprocess" THEN GenPreprocessReady(g, c)
                    ELSE GenExecuteReady(g, c)
        ready == SelectSeq(g.call_stack, Ready)
        r == GenTurn(g, fn, ChKzs(ready))
    IN  IF g.call_stack = <<>>
        THEN [err |-> "Ok", gen |-> g, sent |-> sent, rounds |-> rounds]
        ELSE IF ready = <<>>
        THEN [err |-> IF fn = "preprocess" THEN "Spin" ELSE "Ok",
              gen |-> g, sent |-> sent, rounds |-> rounds]
        ELSE IF r.err # "Ok"
        THEN [err |-> r.err, gen |-> r.gen, sent |-> sent \o r.sent, rounds |-> rounds]
        ELSE GenLoop(r.gen, fn, sent \o r.sent, Append(rounds, OutputsOfCalls(ready)))

\* filter_drain of Evaluator::preprocess: a call is taken when its inputs
\* are disjoint from the outputs of the calls taken before it in this turn
RECURSIVE EvPreFilter(_, _, _, _)
EvPreFilter(stack, idx_outputs, ready, rest) ==
    IF stack = <<>> THEN [ready |-> ready, rest |-> rest]
    ELSE LET c == Head(stack)
         IN  IF \A i \in 1..Len(c.inputs) : ToRange(c.inputs[i]) \cap idx_outputs = {}
             THEN EvPreFilter(Tail(stack), idx_outputs \cup ToRange(c.output),
                              Append(ready, c), rest)
             ELSE EvPreFilter(Tail(stack), idx_outputs, ready, Append(rest, c))

\* The first loop of Evaluator::execute: the preprocessed calls whose input
\* MACs are set are evaluated until none is ready
RECURSIVE EvPreLoop(_)
EvPreLoop(e) ==
    LET pre == SelectSeq(e.preprocessed, LAMBDA p : EvReady(e, p.call))
        e0 == [e EXCEPT !.preprocessed =
                   SelectSeq(e.preprocessed, LAMBDA p : ~EvReady(e, p.call))]
        r == EvRunCalls(e0, [i \in 1..Len(pre) |-> pre[i].call],
                        [i \in 1..Len(pre) |-> pre[i].gc])
    IN  IF e.preprocessed = <<>> \/ pre = <<>> THEN [err |-> "Ok", ev |-> e]
        ELSE IF r.err # "Ok" THEN r
        ELSE EvPreLoop(r.ev)

\* The calls the second loop of Evaluator::execute takes next
EvReadyCalls(e) == SelectSeq(e.call_stack, LAMBDA c : EvReady(e, c))

ChInit ==
    /\ \E v \in Block : gen = GenNew(DeltaNew(v))
    /\ ev = EvNew
    /\ st = ChNew
    /\ gfut = <<>> /\ efut = <<>>
    /\ net = NetNew
    /\ pcG = At("alloc", "start") /\ pcE = At("alloc", "start")
    /\ IdleKeys /\ IdleCorr

\* alloc_raw; alloc_raw on both sides
ChAlloc ==
    /\ pcG.call = "alloc" /\ pcE.call = "alloc"
    /\ \E pre \in BOOLEAN :
        /\ gen' = GenAlloc(GenAlloc(gen, <<2>>), <<3>>)
        /\ ev' = EvAlloc(EvAlloc(ev, 1), 1)
        /\ st' = [st EXCEPT !.pc = "build", !.pre = pre]
    /\ pcG' = At("build", "start") /\ pcE' = At("build", "start")
    /\ UNCHANGED <<keysVars, corr, gfut, efut, net>>

\* call_raw on both sides, on an input or on the output of an earlier call
ChCall ==
    /\ pcG.call = "build" /\ pcE.call = "build"
    /\ Len(st.calls) < ChMaxCalls
    /\ \E s \in {ChX, ChY} \cup {st.calls[i].output : i \in 1..Len(st.calls)} :
        /\ gen' = GenCallRaw(gen, <<s, ChY>>)
        /\ ev' = EvCallRaw(ev, <<s, ChY>>)
        /\ st' = [st EXCEPT !.calls =
                      Append(@, Call(<<s, ChY>>, AllocSlice(gen.data_store, 1)))]
    /\ UNCHANGED <<keysVars, corr, gfut, efut, netVars>>

\* Both parties go on to preprocess, or to the assignments
ChStart ==
    /\ pcG.call = "build" /\ pcE.call = "build"
    /\ st.calls # <<>>
    /\ pcG' = At(IF st.pre THEN "preprocess" ELSE "assign", "start")
    /\ pcE' = At(IF st.pre THEN "preprocess" ELSE "assign", "start")
    /\ UNCHANGED <<keysVars, corr, storeVars, net>>

\* Generator::preprocess
ChGenPreprocess ==
    LET r == GenLoop(gen, "preprocess", <<>>, <<>>)
    IN  /\ pcG.call = "preprocess"
        /\ gen' = r.gen
        /\ net' = [net EXCEPT !.g2e = @ \o r.sent]
        /\ st' = [st EXCEPT !.pre_g = r.rounds]
        /\ pcG' = IF r.err = "Ok" THEN At("assign", "start") ELSE Failed(pcG, r.err)
        /\ UNCHANGED <<keysVars, corr, ev, gfut, efut, pcE>>

\* One turn of the loop of Evaluator::preprocess: the garbled circuits of
\* the calls taken are received and kept in preprocessed
ChEvPreprocess ==
    LET f == EvPreFilter(ev.call_stack, {}, <<>>, <<>>)
        n == Len(f.ready)
        g == GatesOf(net.g2e, n)
    IN  /\ pcE.call = "preprocess"
        /\ Len(net.g2e) >= n
        /\ net' = [net EXCEPT !.g2e = SubSeq(@, n + 1, Len(@))]
        /\ IF g.err # "Ok"
           THEN /\ pcE' = Failed(pcE, "Panic")
                /\ UNCHANGED <<ev, st>>
           ELSE /\ ev' = [ev EXCEPT
                       !.call_stack = f.rest,
                       !.preprocessed = @ \o
                           [i \in 1..n |-> [call |-> f.ready[i], gc |-> g.gcs[i]]]]
                /\ st' = [st EXCEPT !.pre_e = Append(@, OutputsOfCalls(f.ready))]
                /\ pcE' = IF f.rest = <<>> THEN At("assign", "start") ELSE pcE
        /\ UNCHANGED <<keysVars, corr, gen, gfut, efut, pcG>>

\* assign_private_raw / assign_blind_raw on both sides; then both call sync
ChAssign ==
    /\ pcG.call = "assign" /\ pcE.call = "assign"
    /\ \E x \in BitSeqs(1) : \E y \in BitSeqs(1) :
        LET g == GenAssignPrivate(gen, ChX, x)
            e == EvAssignPrivate(EvAssignBlind(ev, ChX), ChY, y)
        IN  /\ g.err = "Ok" /\ e.err = "Ok"
            /\ gen' = GenAssignBlind(g.gen, ChY)
            /\ ev' = e.ev
            /\ st' = [st EXCEPT !.vals = <<x, y>>, !.pc = "sync"]
    /\ pcG' = At("commit1", "assign") /\ pcE' = At("commit1", "assign")
    /\ UNCHANGED <<keysVars, corr, gfut, efut, net>>

\* Generator::execute
ChGenExecute ==
    LET r == GenLoop(gen, "execute", <<>>, <<>>)
    IN  /\ pcG.call = "execute"
        /\ gen' = r.gen
        /\ net' = [net EXCEPT !.g2e = @ \o r.sent]
        /\ st' = [st EXCEPT !.exe_g = r.rounds]
        /\ pcG' = IF r.err = "Ok" THEN At("commit2", "assign") ELSE Failed(pcG, r.err)
        /\ UNCHANGED <<keysVars, corr, ev, gfut, efut, pcE>>

\* Evaluator::execute up to the first wait for encrypted gates
ChEvExecuteStart ==
    LET r == EvPreLoop(ev)
    IN  /\ pcE.call = "execute" /\ pcE.at = "start"
        /\ ev' = r.ev
        /\ pcE' = IF r.err # "Ok" THEN Failed(pcE, r.err)
                  ELSE IF EvReadyCalls(r.ev) = <<>> THEN At("commit2", "assign")
                  ELSE At("execute", "calls")
        /\ UNCHANGED <<keysVars, corr, gen, st, gfut, efut, net, pcG>>

\* One turn of the second loop of Evaluator::execute: the ready calls are
\* evaluated with the gates streamed from the generator
ChEvExecuteCalls ==
    LET ready == EvReadyCalls(ev)
        e1 == [ev EXCEPT !.call_stack = SelectSeq(@, LAMBDA c : ~EvReady(ev, c))]
        n == Len(ready)
        g == GatesOf(net.g2e, n)
        r == EvRunCalls(e1, ready, g.gcs)
    IN  /\ pcE.call = "execute" /\ pcE.at = "calls"
        /\ Len(net.g2e) >= n
        /\ net' = [net EXCEPT !.g2e = SubSeq(@, n + 1, Len(@))]
        /\ IF g.err # "Ok"
           THEN /\ ev' = e1
                /\ pcE' = Failed(pcE, "Panic")
                /\ UNCHANGED st
           ELSE /\ ev' = r.ev
                /\ st' = [st EXCEPT !.exe_e = Append(@, OutputsOfCalls(ready))]
                /\ pcE' = IF r.err # "Ok" THEN Failed(pcE, r.err)
                          ELSE IF EvReadyCalls(r.ev) = <<>> THEN At("commit2", "assign")
                          ELSE pcE
        /\ UNCHANGED <<keysVars, corr, gen, gfut, efut, pcG>>

\* The evaluator waits for gates the generator, having ended, never sends
ChEvStuck ==
    /\ Ended(pcG)
    /\ \/ /\ pcE.call = "execute" /\ pcE.at = "calls"
          /\ Len(net.g2e) < Len(EvReadyCalls(ev))
       \/ /\ pcE.call = "preprocess"
          /\ Len(net.g2e) < Len(EvPreFilter(ev.call_stack, {}, <<>>, <<>>).ready)

ChNext ==
    \/ ChAlloc
    \/ ChCall
    \/ ChStart
    \/ ChGenPreprocess
    \/ ChEvPreprocess
    \/ ChAssign
    \/ GenCommitAssign
    \/ GenCommitCot
    \/ GenCommitKeyBits
    \/ GenCommitVerify
    \/ ChGenExecute
    \/ EvCommitAssign
    \/ EvCommitReceive
    \/ EvCommitKeyBits
    \/ EvCommitDecode
    \/ ChEvExecuteStart
    \/ ChEvExecuteCalls

SpecChain == ChInit /\ [][ChNext]_vars

\* C36: for any call stack built in the same order on both sides, with
\* calls on outputs of earlier calls in chains of any depth, the k-th loop
\* iteration of Generator::preprocess garbles and streams the calls for
\* which the k-th iteration of Evaluator::preprocess receives garbled
\* circuits, and both loops end with an empty call stack.
C36_PreprocessRounds ==
    (st.pre /\ pcG.call \notin {"alloc", "build", "preprocess"}) =>
        /\ pcG.call # "failed"
        /\ gen.call_stack = <<>>
        /\ \A k \in 1..Len(st.pre_e) :
              k <= Len(st.pre_g) /\ st.pre_e[k] = st.pre_g[k]
        /\ pcE.call \notin {"alloc", "build", "preprocess"} =>
              /\ ev.call_stack = <<>>
              /\ Len(st.pre_e) = Len(st.pre_g)

\* C37: in a sync, every call that Evaluator::execute evaluates with gates
\* it waits for is garbled and streamed by Generator::execute in the same
\* sync; with the inputs assigned before sync neither side waits for a
\* message that is never sent, and both call stacks are empty after sync.
C37_ExecuteChain ==
    /\ ~GenStuck /\ ~EvStuck /\ ~ChEvStuck
    /\ pcG.call \in {"commit2", "done"} =>
          UNION {st.exe_e[k] : k \in 1..Len(st.exe_e)}
             \subseteq UNION {st.exe_g[k] : k \in 1..Len(st.exe_g)}
    /\ (pcG.call = "done" /\ pcE.call = "done") =>
          gen.call_stack = <<>> /\ ev.call_stack = <<>>

\* C38: whenever GeneratorStore::execute_assign returns an error, no key
\* index has been newly marked used and every assignment op buffered before
\* the call is still buffered.
C38_AssignAllOrNothing ==
    [][(st.pc = "assign" /\ st'.pc = "receive" /\ st'.err.execute_assign # "Ok") =>
          /\ gen'.key_store.used = gen.key_store.used
          /\ gen'.buffer_assign = gen.buffer_assign]_vars

-----------------------------------------------------------------------------
(* SpecEarly: the stores driven through their public interface by callers   *)
(* that need not follow the order of test_store_decode.  The callers may    *)
(* decode and run execute_decode before the assignment round, and may call  *)
(* execute_decode once more after the round.                                *)

\* gen.decode and ev.decode on every slice, then ev.execute_decode() is the
\* next call: execute_assign and receive have not run
EdDecodeEarly ==
    /\ st.pc = "assign"
    /\ st.slices # <<>>
    /\ gen' = GenDecodeAll(gen, st.slices, 1)
    /\ ev' = EvDecodeAll(ev, st.slices, 1)
    /\ gfut' = [k \in 1..Len(st.slices) |-> FutPending]
    /\ efut' = [k \in 1..Len(st.slices) |-> FutPending]
    /\ st' = [st EXCEPT !.pc = "ev_execute_decode"]
    /\ UNCHANGED <<keysVars, corr, netVars>>

\* A second gen.execute_decode() and ev.execute_decode() after the round
EdAgain ==
    LET g == GenExecuteDecode(gen, gfut)
        e == EvExecuteDecode(ev, efut)
    IN  /\ st.pc = "done"
        /\ gen' = g.gen /\ gfut' = g.futs
        /\ ev' = e.ev /\ efut' = e.futs
        /\ st' = [st EXCEPT !.pc = "again", !.err.gen_execute_decode = g.err,
                            !.err.ev_execute_decode = e.err]
        /\ UNCHANGED <<keysVars, corr, netVars>>

EdNext ==
    \/ CnAssign
    \/ EdDecodeEarly
    \/ StExecuteAssign
    \/ StReceive
    \/ StDecode
    \/ StSendKeyBits
    \/ StReceiveKeyBits
    \/ StEvExecuteDecode
    \/ StVerifyData
    \/ StGenExecuteDecode
    \/ EdAgain

SpecEarly == StInit /\ [][EdNext]_vars

\* C39: whenever EvaluatorStore::execute_decode resolves a pending decode
\* op, the op's slice has its MACs set and is covered by the idx of the
\* returned MacPayload; if MacStore::prove fails, execute_decode has resolved
\* no decode future and removed no op from the pending buffer.
C39_ResolvesWhatItProves ==
    [][(st.pc = "ev_execute_decode" /\ st'.pc = "verify_data") =>
          /\ \A i \in 1..Len(ev.buffer_decode) :
                LET op == ev.buffer_decode[i]
                IN  (efut'[op.fut].done /\ ~efut[op.fut].done) =>
                        /\ MsIsSet(ev.mac_store, op.slice)
                        /\ st'.err.ev_execute_decode = "Ok"
                        /\ ToRange(op.slice) \subseteq st'.mac.idx
          /\ MsProve(ev.mac_store, ToRangeSet(SlicesOf(SelectSeq(ev.buffer_decode,
                 LAMBDA op : StoreTryGet(ev.data_store, op.slice).err = "Ok")))).err # "Ok"
                => (efut' = efut /\ ev'.buffer_decode = ev.buffer_decode)]_vars

-----------------------------------------------------------------------------
(* SpecSendOnce: the decode buffers of the four stores over repeated calls  *)
(* of execute_decode.  A behaviour is either one of the garbling stores     *)
(* (SpecEarly: gen is the GeneratorStore, ev the EvaluatorStore) or one of  *)
(* the zero-knowledge stores (the round of test_store: gen is the           *)
(* VerifierStore, ev the ProverStore) followed by a second execute_decode   *)
(* on both stores.                                                          *)

\* The stores of the behaviour are the garbling stores
IsGarble == "key_bit_store" \in DOMAIN ev

\* A second prover.execute_decode() and verifier.execute_decode() after the
\* round of test_store
ZsAgain ==
    LET v == VsExecuteDecode(gen, gfut)
        p == PsExecuteDecode(ev, efut)
    IN  /\ st.pc = "done"
        /\ gen' = v.vs /\ gfut' = v.futs
        /\ ev' = p.ps /\ efut' = p.futs
        /\ st' = [st EXCEPT !.pc = "again", !.err.verifier_execute_decode = v.err,
                            !.err.prover_execute_decode = p.err]
        /\ UNCHANGED <<keysVars, corr, netVars>>

SoInit == StInit \/ ZsInit

SoNext ==
    \/ IsGarble /\ CnAssign
    \/ IsGarble /\ EdDecodeEarly
    \/ IsGarble /\ StExecuteAssign
    \/ IsGarble /\ StReceive
    \/ IsGarble /\ StDecode
    \/ IsGarble /\ StSendKeyBits
    \/ IsGarble /\ StReceiveKeyBits
    \/ IsGarble /\ StEvExecuteDecode
    \/ IsGarble /\ StVerifyData
    \/ IsGarble /\ StGenExecuteDecode
    \/ IsGarble /\ EdAgain
    \/ ~IsGarble /\ ZsAssignPublic
    \/ ~IsGarble /\ ZsAssignPrivate
    \/ ~IsGarble /\ ZsProverExecuteAssign
    \/ ~IsGarble /\ ZsVerifierExecuteAssign
    \/ ~IsGarble /\ ZsDecode
    \/ ~IsGarble /\ ZsProverExecuteDecode
    \/ ~IsGarble /\ ZsVerifyData
    \/ ~IsGarble /\ ZsVerifierExecuteDecode
    \/ ~IsGarble /\ ZsAgain

SpecSendOnce == SoInit /\ [][SoNext]_vars

\* The step is a call of execute_decode on the store held by ev / by gen
EvDecodeStep ==
    /\ st.pc \in {"ev_execute_decode", "prover_execute_decode", "done"}
    /\ st'.pc # st.pc

GenDecodeStep ==
    /\ st.pc \in {"gen_execute_decode", "verifier_execute_decode", "done"}
    /\ st'.pc # st.pc

\* The ops of `buffer` whose data is set: the ops execute_decode sends
ReadyOps(buffer, store) ==
    SelectSeq(buffer, LAMBDA op : StoreIsSet(store, op.slice))

\* No op of `sent` is in `buffer`
AllRemoved(sent, buffer) ==
    \A i \in 1..Len(sent) : \A j \in 1..Len(buffer) : buffer[j] # sent[i]

\* A future that holds its value keeps it
KeepsValue(futs, futs1) ==
    \A k \in 1..Len(futs) :
        futs[k].done => (k <= Len(futs1) /\ futs1[k] = futs[k])

\* C40: each decode op is sent at most once.  In every call of
\* execute_decode of the generator, evaluator, prover and verifier stores
\* the ops that are sent are removed from buffer_decode by that call, so that
\* DecodeOp::send on any op that is buffered returns Ok (its channel has not
\* been taken, the unwrap does not panic), and a decode future that has
\* resolved never changes again.
C40_SentOnce ==
    [][/\ EvDecodeStep =>
             AllRemoved(ReadyOps(ev.buffer_decode, ev.data_store), ev'.buffer_decode)
       /\ GenDecodeStep =>
             AllRemoved(ReadyOps(gen.buffer_decode, gen.data_store), gen'.buffer_decode)
       /\ SendAll(efut', ReadyOps(ev'.buffer_decode, ev'.data_store), ev'.data_store) = "Ok"
       /\ SendAll(gfut', ReadyOps(gen'.buffer_decode, gen'.data_store), gen'.data_store) = "Ok"
       /\ KeepsValue(efut, efut') /\ KeepsValue(gfut, gfut')]_vars

\* The garbling stores ran the round of two slices and then execute_decode a
\* second time: every future holds the value of its slice, the buffers are
\* empty and no call failed
C40_Witness ==
    /\ IsGarble
    /\ st.pc = "again"
    /\ \A s \in StepNames : st.err[s] = "Ok"
    /\ Len(st.slices) = 2
    /\ \A k \in 1..2 : gfut[k] = FutReady(st.vals[k]) /\ efut[k] = FutReady(st.vals[k])
    /\ gen.buffer_decode = <<>> /\ ev.buffer_decode = <<>>

====
